---- MODULE Spec2Model ----
(***************************************************************************)
(* film-fetcher: the multi-source fetch / merge / filter pipeline.         *)
(*                                                                         *)
(*   helpers     mergeMovieData, matchesFilters, cleanMovieData            *)
(*   adapters    rateLimitedRequest of the OMDB / TMDB / IMDB adapters      *)
(*   fetcher     discoverMovies, searchMoviesByTitle, fetchMoviesByTitles  *)
(*                                                                         *)
(* JavaScript values are records [t, s, n, a]: t is the type tag, s the    *)
(* characters of a string, n a number (or 0/1 for a boolean), a the items  *)
(* of an array.  A string is a sequence of atoms: single characters where  *)
(* substring search matters (country, genre), one atom for an opaque tag   *)
(* ("OMDB", a title).  An array item is a sequence of atoms: <<name,role>> *)
(* for a cast entry, <<title,country>> for an alternative title, <<tag>>   *)
(* for an entry of `sources`.                                              *)
(***************************************************************************)
EXTENDS Integers, Sequences, FiniteSets, TLC

VARIABLES
  \* mergeMovieData (helpers)
  movieDataArray, mergePc, mergeI, merged, mergedBefore,
  \* matchesFilters (helpers)
  movie, filters, tzOffset, filterPc, verdict, filterError,
  \* one adapter instance and the calls of its rateLimitedRequest (api)
  adapterName, apiKey, rateLimitPerSecond, rateLimitDelay, lastRequestTime,
  clock, sequentialUse, callPc, wakeAt, callStamp, requestTimes, callLog,
  \* MovieFetcher.discoverMovies (setup.js) and the source it pages through
  hasTmdb, discFilters, maxPagesArg, sourcePlan, reportedTotalPages, detailPlan,
  discPc, tmdbFilters, maxPages, page, consecutiveEmptyPages, pageLen, batchI,
  pending, batchKept, settledOutOfOrder, results, pageLog, lookupsStarted, stopReason,
  \* MovieFetcher.fetchMoviesByTitles and searchMoviesByTitle (setup.js)
  config, titles, fetchFilters, fetchPc, titleI, found, allResults, fetchLog,
  \* MovieFetcher.enrichMovieData (setup.js)
  enrichConfig, movies, enrichPc, enrichI, enrichmentResults, enrichedMovies,
  enrichLog

mergeVars == <<movieDataArray, mergePc, mergeI, merged, mergedBefore>>
filterVars == <<movie, filters, tzOffset, filterPc, verdict, filterError>>
rateVars ==
  <<adapterName, apiKey, rateLimitPerSecond, rateLimitDelay, lastRequestTime,
    clock, sequentialUse, callPc, wakeAt, callStamp, requestTimes, callLog>>
discoverVars ==
  <<hasTmdb, discFilters, maxPagesArg, sourcePlan, reportedTotalPages, detailPlan,
    discPc, tmdbFilters, maxPages, page, consecutiveEmptyPages, pageLen, batchI,
    pending, batchKept, settledOutOfOrder, results, pageLog, lookupsStarted, stopReason>>
fetchVars ==
  <<config, titles, fetchFilters, fetchPc, titleI, found, allResults, fetchLog>>
enrichVars ==
  <<enrichConfig, movies, enrichPc, enrichI, enrichmentResults, enrichedMovies,
    enrichLog>>
vars == <<mergeVars, filterVars, rateVars, discoverVars, fetchVars, enrichVars>>

\* what each area leaves alone
notMergeVars == <<filterVars, rateVars, discoverVars, fetchVars, enrichVars>>
notFilterVars == <<mergeVars, rateVars, discoverVars, fetchVars, enrichVars>>
notRateVars == <<mergeVars, filterVars, discoverVars, fetchVars, enrichVars>>
notDiscoverVars == <<mergeVars, filterVars, rateVars, fetchVars, enrichVars>>
notFetchVars == <<mergeVars, filterVars, rateVars, discoverVars, enrichVars>>
notEnrichVars == <<mergeVars, filterVars, rateVars, discoverVars, fetchVars>>

(***************************************************************************)
(* JavaScript values                                                       *)
(***************************************************************************)
Undef == [t |-> "undefined", s |-> <<>>, n |-> 0, a |-> <<>>]
Null == [t |-> "null", s |-> <<>>, n |-> 0, a |-> <<>>]
Str(cs) == [t |-> "string", s |-> cs, n |-> 0, a |-> <<>>]
Num(k) == [t |-> "number", s |-> <<>>, n |-> k, a |-> <<>>]
Bool(b) == [t |-> "boolean", s |-> <<>>, n |-> IF b THEN 1 ELSE 0, a |-> <<>>]
Arr(items) == [t |-> "array", s |-> <<>>, n |-> 0, a |-> items]

\* Array.isArray(v)
IsArray(v) == v.t = "array"

\* !v : undefined, null, '', 0 and false are falsy; arrays are truthy
Falsy(v) ==
  \/ v.t \in {"undefined", "null"}
  \/ v.t = "string" /\ v.s = <<>>
  \/ v.t \in {"number", "boolean"} /\ v.n = 0

\* v !== null && v !== undefined && v !== ''
NotEmpty(v) ==
  /\ v.t \notin {"undefined", "null"}
  /\ ~(v.t = "string" /\ v.s = <<>>)

\* Option of a record: <<>> is JavaScript's null result, <<r>> a record
NoRecord == <<>>
Some(r) == <<r>>

(***************************************************************************)
(* Canonical movie record: a function from Keys to values; a key the       *)
(* object does not have reads as undefined.                                *)
(***************************************************************************)
Keys ==
  {"title", "country", "genre", "release_year", "release_month", "release_day",
   "runtime_min", "budget", "adult", "is_color", "cast", "other_titles", "imdb_id",
   "source", "sources"}

MkRec(f) == [k \in Keys |-> IF k \in DOMAIN f THEN f[k] ELSE Undef]

\* merged[key].map(actor => actor.name)
ActorNames(castItems) == {castItems[j][1] : j \in 1..Len(castItems)}

\* lines 153-155: keep the accumulated cast, append the incoming actors whose
\* name is not among the accumulated names
mergeCast_NoDedup(acc, inc) == Arr(acc.a \o inc.a)

mergeCast(acc, inc) ==
  Arr(acc.a \o SelectSeq(inc.a, LAMBDA actor : actor[1] \notin ActorNames(acc.a)))

\* line 158: concatenate the alternative titles
mergeOtherTitles(acc, inc) == Arr(acc.a \o inc.a)

\* lines 150-162: the body of Object.keys(current).forEach for one key
MergeKey(acc, current, key) ==
  IF ~NotEmpty(current[key]) THEN acc[key]
  ELSE IF key = "cast" /\ IsArray(current[key]) /\ IsArray(acc[key])
    THEN mergeCast(acc[key], current[key])
  ELSE IF key = "other_titles" /\ IsArray(current[key]) /\ IsArray(acc[key])
    THEN mergeOtherTitles(acc[key], current[key])
  ELSE IF Falsy(acc[key]) \/ acc[key] = Null \/ acc[key] = Str(<<>>)
    THEN current[key]
  ELSE acc[key]

\* lines 147-164: one iteration of the for loop
MergeInto(acc, current) == [k \in Keys |-> MergeKey(acc, current, k)]

\* line 168: movieDataArray.map(data => data.source).filter(Boolean)
sourcesOf_Unfiltered(list) ==
  Arr([j \in 1..Len(list) |-> list[j]["source"].s])

sourcesOf(list) ==
  LET tags == SelectSeq([j \in 1..Len(list) |-> list[j]["source"]],
                        LAMBDA v : ~Falsy(v))
  IN Arr([j \in 1..Len(tags) |-> tags[j].s])

RECURSIVE MergeFold(_, _, _)
MergeFold(acc, list, i) ==
  IF i > Len(list) THEN acc ELSE MergeFold(MergeInto(acc, list[i]), list, i + 1)

\* lines 137-171
mergeMovieData(list) ==
  IF Len(list) = 0 THEN NoRecord
  ELSE Some([MergeFold(list[1], list, 2) EXCEPT !["sources"] = sourcesOf(list)])

(***************************************************************************)
(* Inputs of the merge                                                     *)
(***************************************************************************)
MaxRecs == 3

ActorA1 == <<"A", "role1">>
ActorA2 == <<"A", "role2">>
ActorB == <<"B", "role3">>
ActorC == <<"C", "role4">>

RecordSpace ==
  { MkRec([title |-> Str(<<"T1">>), budget |-> Null, runtime_min |-> Num(120),
           cast |-> Arr(<<ActorA1>>), other_titles |-> Arr(<<>>),
           imdb_id |-> Str(<<"tt1">>), source |-> Str(<<"OMDB">>)]),
    MkRec([title |-> Str(<<"T2">>), budget |-> Num(5000000), runtime_min |-> Num(0),
           adult |-> Bool(FALSE), cast |-> Arr(<<ActorA2, ActorB>>),
           other_titles |-> Arr(<< <<"X", "PL">> >>), source |-> Str(<<"TMDB">>)]),
    MkRec([title |-> Str(<<>>), budget |-> Num(0), runtime_min |-> Null,
           adult |-> Bool(TRUE), cast |-> Arr(<<>>),
           other_titles |-> Arr(<< <<"Y", "DE">> >>), source |-> Str(<<"IMDB">>)]),
    MkRec([title |-> Null, budget |-> Num(7), runtime_min |-> Num(90),
           cast |-> Null, other_titles |-> Arr(<<>>), source |-> Null]),
    MkRec([budget |-> Null, cast |-> Arr(<<ActorB, ActorC, ActorC>>),
           imdb_id |-> Str(<<"tt2">>), title |-> Str(<<"T3">>)]),
    MkRec([title |-> Str(<<"T1">>), adult |-> Bool(FALSE), runtime_min |-> Num(0),
           cast |-> Arr(<<ActorC, ActorA1>>), other_titles |-> Arr(<<>>),
           source |-> Str(<<"TMDB">>),
           sources |-> Arr(<< <<"OMDB">>, <<"TMDB">> >>)]) }

(***************************************************************************)
(* mergeMovieData as a state machine: one step per iteration of its loop   *)
(***************************************************************************)
MergeIdle ==
  /\ movieDataArray = <<>>
  /\ mergePc = "idle"
  /\ mergeI = 1
  /\ merged = NoRecord
  /\ mergedBefore = NoRecord

MergeInit ==
  /\ movieDataArray \in UNION {[1..n -> RecordSpace] : n \in 0..MaxRecs}
  /\ mergePc = "entry"
  /\ mergeI = 1
  /\ merged = NoRecord
  /\ mergedBefore = NoRecord

\* lines 138-143
MergeEntry ==
  /\ mergePc = "entry"
  /\ IF Len(movieDataArray) = 0
       THEN /\ mergePc' = "returned"
            /\ merged' = NoRecord
            /\ UNCHANGED mergeI
       ELSE /\ mergePc' = "loop"
            /\ merged' = Some(movieDataArray[1])
            /\ mergeI' = 2
  /\ UNCHANGED <<movieDataArray, mergedBefore, notMergeVars>>

\* lines 146-165
MergeLoop ==
  /\ mergePc = "loop"
  /\ mergeI <= Len(movieDataArray)
  /\ mergedBefore' = merged
  /\ merged' = Some(MergeInto(merged[1], movieDataArray[mergeI]))
  /\ mergeI' = mergeI + 1
  /\ UNCHANGED <<movieDataArray, mergePc, notMergeVars>>

\* lines 168-170
MergeReturn ==
  /\ mergePc = "loop"
  /\ mergeI > Len(movieDataArray)
  /\ merged' = Some([merged[1] EXCEPT !["sources"] = sourcesOf(movieDataArray)])
  /\ mergePc' = "returned"
  /\ UNCHANGED <<movieDataArray, mergeI, mergedBefore, notMergeVars>>

MergeNext == MergeEntry \/ MergeLoop \/ MergeReturn

(***************************************************************************)
(* Strings                                                                 *)
(***************************************************************************)
LowerTable ==
  ("A" :> "a") @@ ("B" :> "b") @@ ("C" :> "c") @@ ("D" :> "d") @@
  ("E" :> "e") @@ ("F" :> "f") @@ ("G" :> "g") @@ ("H" :> "h") @@
  ("I" :> "i") @@ ("J" :> "j") @@ ("K" :> "k") @@ ("L" :> "l") @@
  ("M" :> "m") @@ ("N" :> "n") @@ ("O" :> "o") @@ ("P" :> "p") @@
  ("Q" :> "q") @@ ("R" :> "r") @@ ("S" :> "s") @@ ("T" :> "t") @@
  ("U" :> "u") @@ ("V" :> "v") @@ ("W" :> "w") @@ ("X" :> "x") @@
  ("Y" :> "y") @@ ("Z" :> "z")

\* String.prototype.toLowerCase
toLowerCase(cs) ==
  [j \in 1..Len(cs) |-> IF cs[j] \in DOMAIN LowerTable THEN LowerTable[cs[j]] ELSE cs[j]]

\* String.prototype.includes
includes(hay, needle) ==
  \E i \in 0..(Len(hay) - Len(needle)) : SubSeq(hay, i + 1, i + Len(needle)) = needle

\* String.prototype.trim
RECURSIVE trimStart(_)
trimStart(cs) == IF cs # <<>> /\ Head(cs) = " " THEN trimStart(Tail(cs)) ELSE cs

RECURSIVE trimEnd(_)
trimEnd(cs) ==
  IF cs # <<>> /\ cs[Len(cs)] = " " THEN trimEnd(SubSeq(cs, 1, Len(cs) - 1)) ELSE cs

trim(cs) == trimEnd(trimStart(cs))

(***************************************************************************)
(* Dates.  A time is a number of hours since 0000-01-01T00:00Z.  new Date( *)
(* "YYYY-MM-DD") is midnight UTC of that day; new Date(y, m, d) is         *)
(* midnight of that day in the local zone, tzOffset hours east of UTC.     *)
(***************************************************************************)
DaysInMonth(y, m) ==
  IF m = 2 THEN (IF (y % 4 = 0 /\ y % 100 # 0) \/ y % 400 = 0 THEN 29 ELSE 28)
  ELSE IF m \in {4, 6, 9, 11} THEN 30 ELSE 31

RECURSIVE DaysBeforeMonth(_, _)
DaysBeforeMonth(y, m) ==
  IF m <= 1 THEN 0 ELSE DaysBeforeMonth(y, m - 1) + DaysInMonth(y, m - 1)

DayNumber(y, m, d) ==
  LET DaysBeforeYear == 365 * y + ((y + 3) \div 4) - ((y + 99) \div 100) + ((y + 399) \div 400)
  IN DaysBeforeYear + DaysBeforeMonth(y, m) + (d - 1)

\* the ISO date strings the filters use, parsed: <<year, month, day>>
ParseIsoDate(atom) ==
  IF atom = "2020-01-01" THEN <<2020, 1, 1>>
  ELSE IF atom = "2020-06-15" THEN <<2020, 6, 15>>
  ELSE IF atom = "2020-12-31" THEN <<2020, 12, 31>>
  ELSE IF atom = "2019-12-31" THEN <<2019, 12, 31>>
  ELSE <<1970, 1, 1>>

\* new Date(filters.startDate): an option, <<>> is an Invalid Date
DateOfString(v) ==
  LET ymd == ParseIsoDate(v.s[1])
  IN <<24 * DayNumber(ymd[1], ymd[2], ymd[3])>>

\* new Date(year, monthIndex, day): years 0..99 are 1900..1999; ToNumber is
\* Number(v) for a constructor argument: null is 0, <<>> is NaN
DateOfParts(year, monthIndex, day, tz) ==
  LET ToNumber == IF year.t \in {"number", "boolean"} THEN <<year.n>>
                  ELSE IF year.t = "null" THEN <<0>>
                  ELSE <<>>
  IN IF ToNumber = <<>> THEN <<>>
     ELSE LET y0 == ToNumber[1]
              y == IF y0 \in 0..99 THEN 1900 + y0 ELSE y0
          IN <<24 * DayNumber(y, monthIndex + 1, day) - tz>>

\* a < b on Dates: false when either is an Invalid Date
DateLess(a, b) == a # <<>> /\ b # <<>> /\ a[1] < b[1]

(***************************************************************************)
(* matchesFilters (helpers)                                                *)
(***************************************************************************)
\* lines 48-74: countryMapping[code], {} when the table has no such key
countryMapping(code) ==
  IF code = <<"p", "l">> THEN
    {<<"p", "o", "l", "a", "n", "d">>,
     <<"p", "o", "l", "s", "k", "a">>,
     <<"p", "o", "l", "i", "s", "h">>}
  ELSE IF code = <<"u", "s">> THEN
    {<<"u", "n", "i", "t", "e", "d", " ", "s", "t", "a", "t", "e", "s">>,
     <<"u", "s", "a">>,
     <<"a", "m", "e", "r", "i", "c", "a">>,
     <<"u", "n", "i", "t", "e", "d", " ", "s", "t", "a", "t", "e", "s", " ", "o", "f", " ", "a", "m", "e", "r", "i", "c", "a">>}
  ELSE IF code = <<"g", "b">> THEN
    {<<"u", "n", "i", "t", "e", "d", " ", "k", "i", "n", "g", "d", "o", "m">>,
     <<"u", "k">>,
     <<"g", "r", "e", "a", "t", " ", "b", "r", "i", "t", "a", "i", "n">>,
     <<"b", "r", "i", "t", "a", "i", "n">>}
  ELSE IF code = <<"d", "e">> THEN
    {<<"g", "e", "r", "m", "a", "n", "y">>,
     <<"d", "e", "u", "t", "s", "c", "h", "l", "a", "n", "d">>,
     <<"g", "e", "r", "m", "a", "n">>}
  ELSE IF code = <<"f", "r">> THEN
    {<<"f", "r", "a", "n", "c", "e">>,
     <<"f", "r", "e", "n", "c", "h">>}
  ELSE IF code = <<"i", "t">> THEN
    {<<"i", "t", "a", "l", "y">>,
     <<"i", "t", "a", "l", "i", "a">>,
     <<"i", "t", "a", "l", "i", "a", "n">>}
  ELSE IF code = <<"e", "s">> THEN
    {<<"s", "p", "a", "i", "n">>,
     <<"e", "s", "p", "a", "n~", "a">>,
     <<"s", "p", "a", "n", "i", "s", "h">>}
  ELSE IF code = <<"j", "p">> THEN
    {<<"j", "a", "p", "a", "n">>,
     <<"j", "a", "p", "a", "n", "e", "s", "e">>}
  ELSE IF code = <<"k", "r">> THEN
    {<<"s", "o", "u", "t", "h", " ", "k", "o", "r", "e", "a">>,
     <<"k", "o", "r", "e", "a">>,
     <<"k", "o", "r", "e", "a", "n">>}
  ELSE IF code = <<"c", "n">> THEN
    {<<"c", "h", "i", "n", "a">>,
     <<"c", "h", "i", "n", "e", "s", "e">>}
  ELSE IF code = <<"i", "n">> THEN
    {<<"i", "n", "d", "i", "a">>,
     <<"i", "n", "d", "i", "a", "n">>}
  ELSE IF code = <<"c", "a">> THEN
    {<<"c", "a", "n", "a", "d", "a">>,
     <<"c", "a", "n", "a", "d", "i", "a", "n">>}
  ELSE IF code = <<"a", "u">> THEN
    {<<"a", "u", "s", "t", "r", "a", "l", "i", "a">>,
     <<"a", "u", "s", "t", "r", "a", "l", "i", "a", "n">>}
  ELSE IF code = <<"b", "r">> THEN
    {<<"b", "r", "a", "z", "i", "l">>,
     <<"b", "r", "a", "z", "i", "l", "i", "a", "n">>}
  ELSE IF code = <<"m", "x">> THEN
    {<<"m", "e", "x", "i", "c", "o">>,
     <<"m", "e", "x", "i", "c", "a", "n">>}
  ELSE IF code = <<"a", "r">> THEN
    {<<"a", "r", "g", "e", "n", "t", "i", "n", "a">>,
     <<"a", "r", "g", "e", "n", "t", "i", "n", "i", "a", "n">>}
  ELSE IF code = <<"r", "u">> THEN
    {<<"r", "u", "s", "s", "i", "a">>,
     <<"r", "u", "s", "s", "i", "a", "n">>}
  ELSE IF code = <<"s", "e">> THEN
    {<<"s", "w", "e", "d", "e", "n">>,
     <<"s", "w", "e", "d", "i", "s", "h">>}
  ELSE IF code = <<"n", "o">> THEN
    {<<"n", "o", "r", "w", "a", "y">>,
     <<"n", "o", "r", "w", "e", "g", "i", "a", "n">>}
  ELSE IF code = <<"d", "k">> THEN
    {<<"d", "e", "n", "m", "a", "r", "k">>,
     <<"d", "a", "n", "i", "s", "h">>}
  ELSE IF code = <<"f", "i">> THEN
    {<<"f", "i", "n", "l", "a", "n", "d">>,
     <<"f", "i", "n", "n", "i", "s", "h">>}
  ELSE IF code = <<"n", "l">> THEN
    {<<"n", "e", "t", "h", "e", "r", "l", "a", "n", "d", "s">>,
     <<"d", "u", "t", "c", "h">>}
  ELSE IF code = <<"b", "e">> THEN
    {<<"b", "e", "l", "g", "i", "u", "m">>,
     <<"b", "e", "l", "g", "i", "a", "n">>}
  ELSE IF code = <<"c", "h">> THEN
    {<<"s", "w", "i", "t", "z", "e", "r", "l", "a", "n", "d">>,
     <<"s", "w", "i", "s", "s">>}
  ELSE IF code = <<"a", "t">> THEN
    {<<"a", "u", "s", "t", "r", "i", "a">>,
     <<"a", "u", "s", "t", "r", "i", "a", "n">>}
  ELSE {}

\* lines 84-94: TRUE when the date filter rejects the movie; OrOne is
\* movie.release_month || 1 and movie.release_day || 1
dateRejects(m, f, tz) ==
  /\ ~Falsy(f.startDate) \/ ~Falsy(f.endDate)
  /\ LET OrOne(v) == IF Falsy(v) THEN 1 ELSE v.n
         movieDate == DateOfParts(m["release_year"], OrOne(m["release_month"]) - 1,
                                   OrOne(m["release_day"]), tz)
     IN \/ ~Falsy(f.startDate) /\ DateLess(movieDate, DateOfString(f.startDate))
        \/ ~Falsy(f.endDate) /\ DateLess(DateOfString(f.endDate), movieDate)

\* movie.country ? movie.country.toLowerCase() : ''
LowerOrEmpty(v) == IF Falsy(v) THEN <<>> ELSE toLowerCase(v.s)

\* lines 119-127: TRUE when the genre filter rejects the movie
genreRejects(m, f) ==
  /\ ~Falsy(f.genre)
  /\ ~includes(LowerOrEmpty(m["genre"]), toLowerCase(f.genre.s))

\* lines 96-129: the verdict once the date filter has let the movie through
countryThenGenre_NoEarlyReturn(m, f) ==
  LET movieCountries == LowerOrEmpty(m["country"])
      filterCountry == toLowerCase(f.country.s)
      countryVariants == countryMapping(filterCountry)
      countryRejects ==
        /\ ~Falsy(f.country)
        /\ ~includes(movieCountries, filterCountry)
        /\ ~\E variant \in countryVariants : includes(movieCountries, variant)
  IN ~countryRejects /\ ~genreRejects(m, f)

countryThenGenre(m, f) ==
  IF Falsy(f.country) THEN ~genreRejects(m, f)
  ELSE LET movieCountries == LowerOrEmpty(m["country"])
           filterCountry == toLowerCase(f.country.s)
           countryVariants == countryMapping(filterCountry)
       IN IF includes(movieCountries, filterCountry) THEN TRUE
          ELSE IF countryVariants # {}
            THEN (IF ~\E variant \in countryVariants : includes(movieCountries, variant)
                    THEN FALSE ELSE ~genreRejects(m, f))
          ELSE FALSE

\* lines 82-130: the value the call returns
matchesFilters(m, f, tz) ==
  IF dateRejects(m, f, tz) THEN FALSE ELSE countryThenGenre(m, f)

\* lines 107-109: TRUE when the call throws instead of returning.
\* countryMapping is an object literal, so countryMapping[filterCountry] also
\* reads the properties it inherits from Object.prototype: for 'constructor'
\* and '__proto__' the value is truthy and has no `some`, and line 109 throws
\* a TypeError
matchesFiltersThrows(m, f, tz) ==
  /\ ~dateRejects(m, f, tz)
  /\ ~Falsy(f.country)
  /\ ~includes(LowerOrEmpty(m["country"]), toLowerCase(f.country.s))
  /\ toLowerCase(f.country.s) \in
       {<<"c", "o", "n", "s", "t", "r", "u", "c", "t", "o", "r">>,
        <<"_", "_", "p", "r", "o", "t", "o", "_", "_">>}

(***************************************************************************)
(* Inputs of the filter                                                    *)
(***************************************************************************)
MovieSpace ==
  LET CountryValues ==
        {Null, Str(<<>>),
         Str(<<"U", "S", "A">>),
         Str(<<"P", "o", "l", "s", "k", "a">>),
         Str(<<"G", "e", "r", "m", "a", "n", "y">>),
         Str(<<"P", "o", "l", "a", "n", "d", ",", " ", "U", "S", "A">>)}
      GenreValues ==
        {Null,
         Str(<<"D", "r", "a", "m", "a">>),
         Str(<<"A", "c", "t", "i", "o", "n", "/", "C", "o", "m", "e", "d", "y">>)}
      ReleaseValues ==
        {<<Num(2020), Num(1), Num(1)>>, <<Num(2020), Num(6), Num(15)>>,
         <<Num(2019), Num(12), Num(31)>>, <<Num(2021), Null, Null>>,
         <<Null, Null, Null>>, <<Undef, Undef, Undef>>}
  IN { MkRec([title |-> Str(<<"T1">>), country |-> c, genre |-> g,
              release_year |-> r[1], release_month |-> r[2], release_day |-> r[3],
              cast |-> Arr(<<>>), other_titles |-> Arr(<<>>), source |-> Str(<<"TMDB">>)]) :
         c \in CountryValues, g \in GenreValues, r \in ReleaseValues }

FilterSpace ==
  [startDate : {Undef, Str(<<"2020-01-01">>)},
   endDate : {Undef, Str(<<"2020-06-15">>)},
   country : {Undef, Str(<<"p", "l">>), Str(<<"P", "L">>), Str(<<"u", "s", "a">>),
              Str(<<"d", "e">>), Str(<<"P", "o", "l", "s", "k", "a">>), Str(<<"x", "x">>),
              Str(<<"c", "o", "n", "s", "t", "r", "u", "c", "t", "o", "r">>)},
   genre : {Undef, Str(<<"c", "o", "m", "e", "d", "y">>), Str(<<"D", "r", "a", "m", "a">>)}]

NoFilters == [startDate |-> Undef, endDate |-> Undef, country |-> Undef, genre |-> Undef]

FilterIdle ==
  /\ movie = MkRec(<<>>)
  /\ filters = NoFilters
  /\ tzOffset = 0
  /\ filterPc = "idle"
  /\ verdict = FALSE
  /\ filterError = "none"

FilterInit ==
  /\ movie \in MovieSpace
  /\ filters \in FilterSpace
  \* hours east of UTC of the zone the process runs in
  /\ tzOffset \in {-5, 0, 1}
  /\ filterPc = "call"
  /\ verdict = FALSE
  /\ filterError = "none"

\* lines 82-130: one call returns its verdict or throws
FilterCall ==
  /\ filterPc = "call"
  /\ IF matchesFiltersThrows(movie, filters, tzOffset)
       THEN /\ filterError' = "TypeError"
            /\ filterPc' = "thrown"
            /\ UNCHANGED verdict
       ELSE /\ verdict' = matchesFilters(movie, filters, tzOffset)
            /\ filterPc' = "returned"
            /\ UNCHANGED filterError
  /\ UNCHANGED <<movie, filters, tzOffset, notFilterVars>>

(***************************************************************************)
(* Source adapters: constructor and rateLimitedRequest (api)               *)
(***************************************************************************)
Adapters == {"omdb", "tmdb", "imdb"}

\* the default of the constructor's rateLimitPerSecond parameter
OmdbDefaultRate == 10
TmdbDefaultRate == 40
ImdbDefaultRate == 5

DefaultRate(a) ==
  IF a = "omdb" THEN OmdbDefaultRate
  ELSE IF a = "tmdb" THEN TmdbDefaultRate
  ELSE ImdbDefaultRate

\* constructor: this.rateLimitDelay = 1000 / rateLimitPerSecond (the rates
\* used here all divide 1000, so the quotient is the exact JS number)
DelayOfRate(rate) == 1000 \div rate

\* the clock (Date.now(), ms) when the adapter is constructed, and the horizon
ClockStart == 1000
ClockSpan == 200

\* the call sites that may be inside rateLimitedRequest at the same time: one
\* when every call is awaited before the next, the members of a sub-batch of
\* discoverMovies otherwise (setup.js lines 242-269)
Slots == {1, 2, 3}
MaxCalls == 3

\* what the HTTP layer answers: a 2xx body, a 2xx body carrying the source's
\* not-found sentinel (OMDB: Response === 'False'), or a failed call (axios
\* rejects on a network error, a non-2xx status and a timeout)
TransportFailures == {"network", "status", "timeout"}
Replies(a) ==
  {"ok"} \cup TransportFailures \cup (IF a = "omdb" THEN {"sentinel"} ELSE {})

Returned == [kind |-> "return", error |-> "none"]
Thrown(e) == [kind |-> "throw", error |-> e]

\* lines 16-18: the time to sleep, 0 when the call goes on at once
remainingDelay_Elapsed(delay, elapsed) == IF elapsed < delay THEN elapsed ELSE 0

remainingDelay(delay, elapsed) == IF elapsed < delay THEN delay - elapsed ELSE 0

\* omdbApi.js lines 22-59, tmdbApi lines 69-83, imdbApi.js lines 22-44: what
\* the call gives its caller for a reply of the HTTP layer
outcomeOfReply_SentinelReturned(a, reply) ==
  IF reply \in TransportFailures THEN Thrown("AxiosError") ELSE Returned

outcomeOfReply(a, reply) ==
  IF reply \in TransportFailures THEN Thrown("AxiosError")
  ELSE IF a = "omdb" /\ reply = "sentinel" THEN Thrown("Error")
  ELSE Returned

\* getMovieDetails on top of rateLimitedRequest: OMDB (omdbApi.js lines 80-93)
\* and TMDB (tmdbApi lines 100-104) await the call and let a throw pass;
\* IMDB (imdbApi.js lines 76-84) catches every throw and returns null
detailsById(a, outcome) ==
  IF a = "imdb" /\ outcome.kind = "throw" THEN Returned ELSE outcome

RateIdle ==
  /\ adapterName = "omdb"
  /\ apiKey = TRUE
  /\ rateLimitPerSecond = OmdbDefaultRate
  /\ rateLimitDelay = DelayOfRate(OmdbDefaultRate)
  /\ lastRequestTime = 0
  /\ clock = ClockStart
  /\ sequentialUse = TRUE
  /\ callPc = [s \in Slots |-> "idle"]
  /\ wakeAt = [s \in Slots |-> 0]
  /\ callStamp = [s \in Slots |-> 0]
  /\ requestTimes = <<>>
  /\ callLog = <<>>

\* constructor
RateInit ==
  /\ adapterName \in Adapters
  /\ apiKey \in (IF adapterName = "imdb" THEN BOOLEAN ELSE {TRUE})
  \* the rate argument is omitted or given
  /\ rateLimitPerSecond \in {DefaultRate(adapterName), 20}
  /\ rateLimitDelay = DelayOfRate(rateLimitPerSecond)
  /\ lastRequestTime = 0
  /\ clock = ClockStart
  /\ sequentialUse \in BOOLEAN
  /\ callPc = [s \in Slots |-> "idle"]
  /\ wakeAt = [s \in Slots |-> 0]
  /\ callStamp = [s \in Slots |-> 0]
  /\ requestTimes = <<>>
  /\ callLog = <<>>

\* lines 20-41 up to the await of axios.get: stamp the call, then either throw
\* before any request (OMDB without a key) or send the request
StampAndSend(s) ==
  /\ lastRequestTime' = clock
  /\ callStamp' = [callStamp EXCEPT ![s] = clock]
  /\ IF adapterName = "omdb" /\ ~apiKey
       THEN /\ callPc' = [callPc EXCEPT ![s] = "idle"]
            /\ callLog' = Append(callLog, [stamp |-> clock, sent |-> FALSE,
                                           reply |-> "none", outcome |-> Thrown("Error")])
            /\ UNCHANGED requestTimes
       ELSE /\ callPc' = [callPc EXCEPT ![s] = "inflight"]
            /\ requestTimes' = Append(requestTimes, clock)
            /\ UNCHANGED callLog

\* lines 13-18: a caller enters rateLimitedRequest while no other call is in it
RLEnter(s) ==
  /\ s = 1
  /\ \A o \in Slots : callPc[o] = "idle"
  /\ Len(callLog) < MaxCalls
  /\ LET ms == remainingDelay(rateLimitDelay, clock - lastRequestTime)
     IN IF ms > 0
          THEN /\ callPc' = [callPc EXCEPT ![s] = "sleeping"]
               /\ wakeAt' = [wakeAt EXCEPT ![s] = clock + ms]
               /\ UNCHANGED <<lastRequestTime, callStamp, requestTimes, callLog>>
          ELSE /\ StampAndSend(s)
               /\ UNCHANGED wakeAt
  /\ UNCHANGED <<adapterName, apiKey, rateLimitPerSecond, rateLimitDelay, clock,
                 sequentialUse, notRateVars>>

\* lines 13-20 run for every member of a sub-batch in one synchronous loop
\* (batch.map starts each lookup up to its first await): the members enter at
\* the same Date.now(), each reading the lastRequestTime the one before left.
\* Either the first member goes on at once and stamps, and the others read an
\* elapsed time of 0 and sleep for rateLimitDelay; or all read the same
\* lastRequestTime and sleep for the same time.
RLEnterBatch ==
  /\ ~sequentialUse
  /\ \A o \in Slots : callPc[o] = "idle"
  /\ Len(callLog) + Cardinality(Slots) <= MaxCalls
  /\ LET ms == remainingDelay(rateLimitDelay, clock - lastRequestTime)
     IN IF ms > 0
          THEN /\ callPc' = [o \in Slots |-> "sleeping"]
               /\ wakeAt' = [o \in Slots |-> clock + ms]
               /\ UNCHANGED <<lastRequestTime, callStamp, requestTimes>>
          ELSE /\ callPc' = [o \in Slots |-> IF o = 1 THEN "inflight" ELSE "sleeping"]
               /\ wakeAt' = [o \in Slots |->
                               IF o = 1 THEN wakeAt[o]
                               ELSE clock + remainingDelay(rateLimitDelay, 0)]
               /\ lastRequestTime' = clock
               /\ callStamp' = [callStamp EXCEPT ![1] = clock]
               /\ requestTimes' = Append(requestTimes, clock)
  /\ UNCHANGED <<adapterName, apiKey, rateLimitPerSecond, rateLimitDelay, clock,
                 sequentialUse, callLog, notRateVars>>

\* line 17: the sleep is over (a timer fires at its time or later)
RLWake(s) ==
  /\ callPc[s] = "sleeping"
  /\ clock >= wakeAt[s]
  /\ StampAndSend(s)
  /\ UNCHANGED <<adapterName, apiKey, rateLimitPerSecond, rateLimitDelay, clock,
                 sequentialUse, wakeAt, notRateVars>>

\* the HTTP layer answers and the call returns or throws
RLReply(s) ==
  /\ callPc[s] = "inflight"
  /\ \E reply \in Replies(adapterName) :
       callLog' = Append(callLog, [stamp |-> callStamp[s], sent |-> TRUE, reply |-> reply,
                                   outcome |-> outcomeOfReply(adapterName, reply)])
  /\ callPc' = [callPc EXCEPT ![s] = "idle"]
  /\ UNCHANGED <<adapterName, apiKey, rateLimitPerSecond, rateLimitDelay,
                 lastRequestTime, clock, sequentialUse, wakeAt, callStamp,
                 requestTimes, notRateVars>>

\* time passes until the timer of a sleeping call is due
TickToWake(s) ==
  /\ callPc[s] = "sleeping"
  /\ clock < wakeAt[s]
  /\ wakeAt[s] <= ClockStart + ClockSpan
  /\ clock' = wakeAt[s]
  /\ UNCHANGED <<adapterName, apiKey, rateLimitPerSecond, rateLimitDelay,
                 lastRequestTime, sequentialUse, callPc, wakeAt, callStamp,
                 requestTimes, callLog, notRateVars>>

\* time passes
Tick(d) ==
  /\ clock + d <= ClockStart + ClockSpan
  /\ clock' = clock + d
  /\ UNCHANGED <<adapterName, apiKey, rateLimitPerSecond, rateLimitDelay,
                 lastRequestTime, sequentialUse, callPc, wakeAt, callStamp,
                 requestTimes, callLog, notRateVars>>

RateNext ==
  \/ \E s \in Slots : RLEnter(s)
  \/ RLEnterBatch
  \/ \E s \in Slots : RLWake(s)
  \/ \E s \in Slots : RLReply(s)
  \/ \E s \in Slots : TickToWake(s)
  \/ \E d \in {50, 100} : Tick(d)

(***************************************************************************)
(* TMDBApi.normalizeMovieData and TMDBApi.discoverMovies (api)             *)
(***************************************************************************)
\* Array.prototype.join on an array of strings
RECURSIVE join(_, _)
join(names, sep) ==
  IF names = <<>> THEN <<>>
  ELSE IF Len(names) = 1 THEN names[1]
  ELSE names[1] \o sep \o join(Tail(names), sep)

\* lines 227-349, the fields of the canonical record that the model carries;
\* the payload has no credits and no alternative titles.
\*   parts: new Date(release_date), midnight UTC, read back with getFullYear(),
\*     getMonth() + 1 and getDate() in the local zone; <<>> is an Invalid Date
\*   PartOrNull: x || null for a date part
\*   JoinedNames: v ? v.map(x => x.name).join(sep) : null
\*   PositiveOrNull: v > 0 ? v : null
tmdbNormalize(tmdbData, tz) ==
  IF tmdbData = NoRecord THEN NoRecord
  ELSE LET raw == tmdbData[1]
           PrevDay(ymd) ==
             IF ymd[3] > 1 THEN <<ymd[1], ymd[2], ymd[3] - 1>>
             ELSE IF ymd[2] > 1 THEN <<ymd[1], ymd[2] - 1, DaysInMonth(ymd[1], ymd[2] - 1)>>
             ELSE <<ymd[1] - 1, 12, 31>>
           utc == IF raw.release_date.t = "null" THEN <<1970, 1, 1>>
                  ELSE ParseIsoDate(raw.release_date.s[1])
           parts == IF Falsy(raw.release_date) /\ raw.release_date.t # "null" THEN <<>>
                    ELSE IF tz < 0 THEN <<PrevDay(utc)>> ELSE <<utc>>
           PartOrNull(ps, j) == IF ps = <<>> \/ ps[1][j] = 0 THEN Null ELSE Num(ps[1][j])
           JoinedNames(v, sep) == IF Falsy(v) THEN Null ELSE Str(join(v.a, sep))
           PositiveOrNull(v) == IF v.t = "number" /\ v.n > 0 THEN v ELSE Null
       IN Some(MkRec([title |-> raw.title,
                      release_year |-> PartOrNull(parts, 1),
                      release_month |-> PartOrNull(parts, 2),
                      release_day |-> PartOrNull(parts, 3),
                      country |-> JoinedNames(raw.production_countries, <<",", " ">>),
                      genre |-> JoinedNames(raw.genres, <<"/">>),
                      runtime_min |-> raw.runtime,
                      budget |-> PositiveOrNull(raw.budget),
                      adult |-> raw.adult,
                      is_color |-> Bool(TRUE),
                      cast |-> Arr(<<>>),
                      other_titles |-> Arr(<<>>),
                      imdb_id |-> raw.imdb_id,
                      source |-> Str(<<"TMDB">>)]))

\* the detail payloads of the source
RawA ==
  [title |-> Str(<<"T1">>), release_date |-> Str(<<"2020-06-15">>),
   genres |-> Arr(<< <<"A", "c", "t", "i", "o", "n">>, <<"C", "o", "m", "e", "d", "y">> >>),
   production_countries |-> Arr(<< <<"U", "S", "A">> >>),
   runtime |-> Num(120), budget |-> Num(5000000), adult |-> Bool(FALSE),
   imdb_id |-> Str(<<"tt1">>)]

RawB ==
  [title |-> Str(<<"T2">>), release_date |-> Str(<<"2019-12-31">>),
   genres |-> Arr(<< <<"D", "r", "a", "m", "a">> >>),
   production_countries |-> Arr(<< <<"P", "o", "l", "a", "n", "d">>, <<"U", "S", "A">> >>),
   runtime |-> Num(90), budget |-> Num(0), adult |-> Bool(FALSE),
   imdb_id |-> Undef]

RawC ==
  [title |-> Str(<<"T3">>), release_date |-> Str(<<>>),
   genres |-> Undef, production_countries |-> Undef,
   runtime |-> Null, budget |-> Undef, adult |-> Undef, imdb_id |-> Null]

\* what the source answers to getMovieDetails for the idx-th result of a page:
\* the call fails, or a 2xx reply with a body (NoRecord: an empty body)
\* (every lookup gives the same payload, or the "mixed" pattern below)
DetailReply(plan, idx) ==
  IF plan = "plain" THEN [kind |-> "ok", body |-> Some(RawA)]
  ELSE IF idx % 5 = 2 THEN [kind |-> "fail", body |-> NoRecord]
  ELSE IF idx % 5 = 4 THEN [kind |-> "ok", body |-> Some(RawB)]
  ELSE IF idx % 7 = 0 THEN [kind |-> "ok", body |-> NoRecord]
  ELSE IF idx % 7 = 3 THEN [kind |-> "ok", body |-> Some(RawC)]
  ELSE [kind |-> "ok", body |-> Some(RawA)]

\* TMDBApi.discoverMovies: the query parameters built from its filters argument
discoverParams(f) ==
  [page |-> IF f.page = 0 THEN 1 ELSE f.page,
   release_date_gte |-> IF Falsy(f.release_date_gte) THEN Undef ELSE f.release_date_gte,
   release_date_lte |-> IF Falsy(f.release_date_lte) THEN Undef ELSE f.release_date_lte,
   with_genres |-> IF Falsy(f.with_genres) THEN Undef ELSE f.with_genres,
   with_origin_country |->
     IF Falsy(f.with_origin_country) THEN Undef ELSE f.with_origin_country]

(***************************************************************************)
(* MovieFetcher.discoverMovies (setup.js)                                  *)
(***************************************************************************)
\* line 293: a page with fewer results than this is the last one
PageSize == 20
\* line 237
BatchSize == 5
\* line 218
HardCeiling == 500
\* lines 294 and 309
StreakLimit == 3

Min(a, b) == IF a < b THEN a ELSE b

\* the source: the number of results of each page (no results past the last
\* page it has), and the total_pages it reports, 0 when it reports none
MaxSrcPages == 2
PageLen(plan, p) == IF p \in DOMAIN plan THEN plan[p] ELSE 0

\* how many page fetches of one call may fail
MaxPageFailures == 3

NoTmdbFilters ==
  [primary_release_date_gte |-> Undef, primary_release_date_lte |-> Undef,
   with_origin_country |-> Undef, region |-> Undef, with_genres |-> Undef,
   release_date_gte |-> Undef, release_date_lte |-> Undef, page |-> 0]

\* lines 178-215: the filters in the source's format; dictReply tells whether
\* the genre dictionary could be fetched.
\*   GenreDictionary: the genres the source answers, <<name, id>>
\*   genreId: genreMap[filters.genre.toLowerCase()], Undef when not there
translateFilters(f, dictReply) ==
  LET toUpperCase(cs) ==
        [j \in 1..Len(cs) |->
           IF \E u \in DOMAIN LowerTable : LowerTable[u] = cs[j]
             THEN CHOOSE u \in DOMAIN LowerTable : LowerTable[u] = cs[j]
             ELSE cs[j]]
      GenreDictionary ==
        << <<<<"C", "o", "m", "e", "d", "y">>, 35>>, <<<<"D", "r", "a", "m", "a">>, 18>> >>
      genreId(name) ==
        LET hits == {j \in 1..Len(GenreDictionary) :
                       toLowerCase(GenreDictionary[j][1]) = toLowerCase(name)}
        IN IF hits = {} THEN Undef
           ELSE Num(GenreDictionary[CHOOSE j \in hits : \A k \in hits : k <= j][2])
  IN
  [NoTmdbFilters EXCEPT
     !.primary_release_date_gte = IF Falsy(f.startDate) THEN Undef ELSE f.startDate,
     !.primary_release_date_lte = IF Falsy(f.endDate) THEN Undef ELSE f.endDate,
     !.with_origin_country = IF Falsy(f.country) THEN Undef ELSE Str(toUpperCase(f.country.s)),
     !.region = IF Falsy(f.country) THEN Undef ELSE Str(toUpperCase(f.country.s)),
     !.with_genres =
       IF Falsy(f.genre) \/ dictReply # "ok" \/ Falsy(genreId(f.genre.s)) THEN Undef
       ELSE genreId(f.genre.s)]

\* lines 244-270: what one detail lookup contributes, NoRecord for null;
\* dateOnlyFilters is the filters with the country term deleted
lookupResult(reply, f, tz) ==
  IF reply.kind = "fail" THEN NoRecord
  ELSE LET normalized == tmdbNormalize(reply.body, tz)
           dateOnlyFilters == IF Falsy(f.country) THEN f ELSE [f EXCEPT !.country = Undef]
       IN IF normalized # NoRecord /\ matchesFilters(normalized[1], dateOnlyFilters, tz)
            THEN normalized
            ELSE NoRecord

\* lines 291-303: why the loop is left after a fetched page, "none" to go on
stopReasonOf(present, n, empties, p, total) ==
  IF ~present THEN "No results"
  ELSE IF n < PageSize THEN "Partial page"
  ELSE IF empties >= StreakLimit THEN "Too many empty pages"
  ELSE IF p >= total THEN "Reached total pages"
  ELSE "none"

\* the results of the sub-batch that starts after the first i results
BatchOf(i, n) == (i + 1)..Min(i + BatchSize, n)

\* the kept results of a sub-batch, in the order of the page
RECURSIVE InPageOrder_Reversed(_, _)
InPageOrder_Reversed(p, idxs) ==
  IF idxs = {} THEN <<>>
  ELSE LET hi == CHOOSE x \in idxs : \A y \in idxs : x >= y
       IN <<[page |-> p, idx |-> hi]>> \o InPageOrder_Reversed(p, idxs \ {hi})

RECURSIVE InPageOrder(_, _)
InPageOrder(p, idxs) ==
  IF idxs = {} THEN <<>>
  ELSE LET lo == CHOOSE x \in idxs : \A y \in idxs : x <= y
       IN <<[page |-> p, idx |-> lo]>> \o InPageOrder(p, idxs \ {lo})

DiscoverIdle ==
  /\ hasTmdb = TRUE
  /\ discFilters = NoFilters
  /\ maxPagesArg = 0
  /\ sourcePlan = <<>>
  /\ reportedTotalPages = 0
  /\ detailPlan = "plain"
  /\ discPc = "idle"
  /\ tmdbFilters = NoTmdbFilters
  /\ maxPages = 0
  /\ page = 1
  /\ consecutiveEmptyPages = 0
  /\ pageLen = 0
  /\ batchI = 0
  /\ pending = {}
  /\ batchKept = {}
  /\ settledOutOfOrder = FALSE
  /\ results = <<>>
  /\ pageLog = <<>>
  /\ lookupsStarted = {}
  /\ stopReason = "none"

\* a MovieFetcher, a source, and one call of discoverMovies about to begin
DiscoverInit ==
  /\ hasTmdb \in BOOLEAN
  /\ discFilters \in
        {NoFilters,
         [startDate |-> Str(<<"2020-01-01">>), endDate |-> Undef,
          country |-> Str(<<"u", "s">>), genre |-> Str(<<"c", "o", "m", "e", "d", "y">>)],
         [startDate |-> Undef, endDate |-> Str(<<"2020-06-15">>),
          country |-> Undef, genre |-> Str(<<"N", "o", "i", "r">>)]}
  \* filters.maxPages, 0 when the caller gives none
  /\ maxPagesArg \in {0, 2, 10, 600}
  /\ sourcePlan \in UNION {[1..n -> {0, 7, 20}] : n \in 0..MaxSrcPages}
  /\ reportedTotalPages \in {0, 2, 10}
  /\ detailPlan \in {"plain", "mixed"}
  /\ discPc = "start"
  /\ tmdbFilters = NoTmdbFilters
  /\ maxPages = 0
  /\ page = 1
  /\ consecutiveEmptyPages = 0
  /\ pageLen = 0
  /\ batchI = 0
  /\ pending = {}
  /\ batchKept = {}
  /\ settledOutOfOrder = FALSE
  /\ results = <<>>
  /\ pageLog = <<>>
  /\ lookupsStarted = {}
  /\ stopReason = "none"

\* lines 168-222: up to the first iteration of the page loop; results (line
\* 168), consecutiveEmptyPages (line 219) and page (line 222) are locals of
\* the call
DiscoverStart ==
  /\ discPc = "start"
  /\ results' = <<>>
  /\ IF ~hasTmdb
       THEN /\ discPc' = "returned"
            /\ stopReason' = "No adapter"
            /\ UNCHANGED <<tmdbFilters, maxPages, page, consecutiveEmptyPages>>
       ELSE /\ \E dictReply \in (IF Falsy(discFilters.genre) THEN {"unused"}
                                                               ELSE {"ok", "fail"}) :
                 tmdbFilters' = translateFilters(discFilters, dictReply)
            /\ maxPages' = Min(IF maxPagesArg = 0 THEN HardCeiling ELSE maxPagesArg,
                               HardCeiling)
            /\ consecutiveEmptyPages' = 0
            /\ page' = 1
            /\ discPc' = "loop"
            /\ UNCHANGED stopReason
  /\ UNCHANGED <<hasTmdb, discFilters, maxPagesArg, sourcePlan, reportedTotalPages,
                 detailPlan, pageLen, batchI, pending, batchKept, pageLog,
                 lookupsStarted, settledOutOfOrder, notDiscoverVars>>

\* line 223 (page++ and page <= maxPages) after an iteration that did not break
NextPage_Unbounded ==
  /\ page' = page + 1
  /\ discPc' = "loop"
  /\ UNCHANGED stopReason

NextPage ==
  IF page + 1 <= maxPages
    THEN /\ page' = page + 1
         /\ discPc' = "loop"
         /\ UNCHANGED stopReason
    ELSE /\ discPc' = "returned"
         /\ stopReason' = "Max pages"
         /\ UNCHANGED page

\* lines 291-303: the break test at the end of an iteration
EndOfPage(present, n, empties) ==
  LET why == stopReasonOf(present, n, empties, page, reportedTotalPages)
  IN IF why # "none"
       THEN /\ discPc' = "returned"
            /\ stopReason' = why
            /\ UNCHANGED page
       ELSE NextPage

\* the detail lookups of the sub-batch after the first i results are started
StartBatch(i, n) ==
  /\ batchI' = i
  /\ pending' = BatchOf(i, n)
  /\ batchKept' = {}
  /\ lookupsStarted' = lookupsStarted \cup {[page |-> page, idx |-> x] : x \in BatchOf(i, n)}
  /\ discPc' = "lookups"

\* lines 224-235, 286-289: the page request is answered
FetchPage ==
  /\ discPc = "loop"
  /\ \E answer \in {"ok", "no results"} :
       LET present == answer = "ok"
           n == IF present THEN PageLen(sourcePlan, page) ELSE 0
           empties == IF n > 0 THEN 0 ELSE consecutiveEmptyPages + 1
       IN /\ pageLog' = Append(pageLog, [page |-> page, outcome |-> answer, len |-> n,
                                         params |-> discoverParams([tmdbFilters EXCEPT !.page = page])])
          /\ tmdbFilters' = [tmdbFilters EXCEPT !.page = page]
          /\ consecutiveEmptyPages' = empties
          /\ pageLen' = n
          /\ IF n > 0
               THEN /\ StartBatch(0, n)
                    /\ UNCHANGED <<page, stopReason>>
               ELSE /\ EndOfPage(present, n, empties)
                    /\ UNCHANGED <<batchI, pending, batchKept, lookupsStarted>>
  /\ UNCHANGED <<hasTmdb, discFilters, maxPagesArg, sourcePlan, reportedTotalPages,
                 detailPlan, maxPages, results, settledOutOfOrder, notDiscoverVars>>

\* lines 224-226, 305-312: the page request fails
FetchPageFails_Abort ==
  /\ discPc = "loop"
  /\ Cardinality({i \in 1..Len(pageLog) : pageLog[i].outcome = "fail"}) < MaxPageFailures
  /\ pageLog' = Append(pageLog, [page |-> page, outcome |-> "fail", len |-> 0,
                                 params |-> discoverParams([tmdbFilters EXCEPT !.page = page])])
  /\ tmdbFilters' = [tmdbFilters EXCEPT !.page = page]
  /\ consecutiveEmptyPages' = consecutiveEmptyPages + 1
  /\ discPc' = "returned"
  /\ stopReason' = "Discovery failed"
  /\ results' = <<>>
  /\ UNCHANGED <<hasTmdb, discFilters, maxPagesArg, sourcePlan, reportedTotalPages,
                 detailPlan, maxPages, page, pageLen, batchI, pending, batchKept,
                 lookupsStarted, settledOutOfOrder, notDiscoverVars>>

\* a failed page is asked for again, uncounted
FetchPageFails_Retry ==
  /\ discPc = "loop"
  /\ Cardinality({i \in 1..Len(pageLog) : pageLog[i].outcome = "fail"}) < MaxPageFailures
  /\ pageLog' = Append(pageLog, [page |-> page, outcome |-> "fail", len |-> 0,
                                 params |-> discoverParams([tmdbFilters EXCEPT !.page = page])])
  /\ tmdbFilters' = [tmdbFilters EXCEPT !.page = page]
  /\ UNCHANGED <<hasTmdb, discFilters, maxPagesArg, sourcePlan, reportedTotalPages,
                 detailPlan, discPc, maxPages, page, consecutiveEmptyPages, pageLen,
                 batchI, pending, batchKept, results, lookupsStarted, stopReason,
                 settledOutOfOrder, notDiscoverVars>>

FetchPageFails ==
  /\ discPc = "loop"
  /\ Cardinality({i \in 1..Len(pageLog) : pageLog[i].outcome = "fail"}) < MaxPageFailures
  /\ pageLog' = Append(pageLog, [page |-> page, outcome |-> "fail", len |-> 0,
                                 params |-> discoverParams([tmdbFilters EXCEPT !.page = page])])
  /\ tmdbFilters' = [tmdbFilters EXCEPT !.page = page]
  /\ consecutiveEmptyPages' = consecutiveEmptyPages + 1
  /\ IF consecutiveEmptyPages + 1 >= StreakLimit
       THEN /\ discPc' = "returned"
            /\ stopReason' = "Consecutive failures"
            /\ UNCHANGED page
       ELSE NextPage
  /\ UNCHANGED <<hasTmdb, discFilters, maxPagesArg, sourcePlan, reportedTotalPages,
                 detailPlan, maxPages, pageLen, batchI, pending, batchKept, results,
                 lookupsStarted, settledOutOfOrder, notDiscoverVars>>

\* lines 244-270: one of the pending detail lookups settles
LookupDone(e) ==
  /\ discPc = "lookups"
  /\ e \in pending
  /\ pending' = pending \ {e}
  /\ batchKept' =
       IF lookupResult(DetailReply(detailPlan, e), discFilters, tzOffset) # NoRecord
         THEN batchKept \cup {e} ELSE batchKept
  \* the lookups of a sub-batch settle in any order: this one settled while an
  \* earlier member was still pending
  /\ settledOutOfOrder' = (settledOutOfOrder \/ \E x \in pending : x < e)
  /\ UNCHANGED <<hasTmdb, discFilters, maxPagesArg, sourcePlan, reportedTotalPages,
                 detailPlan, discPc, tmdbFilters, maxPages, page, consecutiveEmptyPages,
                 pageLen, batchI, results, pageLog, lookupsStarted, stopReason,
                 notDiscoverVars>>

\* lines 269-271: Promise.all resolves once every lookup settled (each lookup
\* catches its own failure, so the Promise.all never rejects)
BatchJoin_AllOrNothing ==
  /\ discPc = "lookups"
  /\ pending = {}
  /\ results' = IF batchKept = BatchOf(batchI, pageLen)
                  THEN results \o InPageOrder(page, batchKept) ELSE results
  /\ discPc' = "pacing"
  /\ UNCHANGED <<hasTmdb, discFilters, maxPagesArg, sourcePlan, reportedTotalPages,
                 detailPlan, tmdbFilters, maxPages, page, consecutiveEmptyPages,
                 pageLen, batchI, pending, batchKept, pageLog, lookupsStarted,
                 stopReason, settledOutOfOrder, notDiscoverVars>>

BatchJoin ==
  /\ discPc = "lookups"
  /\ pending = {}
  /\ results' = results \o InPageOrder(page, batchKept)
  /\ discPc' = "pacing"
  /\ UNCHANGED <<hasTmdb, discFilters, maxPagesArg, sourcePlan, reportedTotalPages,
                 detailPlan, tmdbFilters, maxPages, page, consecutiveEmptyPages,
                 pageLen, batchI, pending, batchKept, pageLog, lookupsStarted,
                 stopReason, settledOutOfOrder, notDiscoverVars>>

\* lines 287-303: the pacing delay is over; next sub-batch or end of the page
PacingDone ==
  /\ discPc = "pacing"
  /\ IF batchI + BatchSize < pageLen
       THEN /\ StartBatch(batchI + BatchSize, pageLen)
            /\ UNCHANGED <<page, stopReason>>
       ELSE /\ EndOfPage(TRUE, pageLen, consecutiveEmptyPages)
            /\ UNCHANGED <<batchI, pending, batchKept, lookupsStarted>>
  /\ UNCHANGED <<hasTmdb, discFilters, maxPagesArg, sourcePlan, reportedTotalPages,
                 detailPlan, tmdbFilters, maxPages, consecutiveEmptyPages, pageLen,
                 results, pageLog, settledOutOfOrder, notDiscoverVars>>

DiscoverNext ==
  \/ DiscoverStart
  \/ FetchPage
  \/ FetchPageFails
  \/ \E e \in 1..PageSize : LookupDone(e)
  \/ BatchJoin
  \/ PacingDone

\* line 167: discoverMovies is called again on the same MovieFetcher, with the
\* same filters against the same source; what the model recorded about the
\* call before is cleared, what that call left in its locals is not
DiscoverAgain ==
  /\ discPc = "returned"
  /\ discPc' = "start"
  /\ tmdbFilters' = NoTmdbFilters
  /\ pageLen' = 0
  /\ batchI' = 0
  /\ batchKept' = {}
  /\ settledOutOfOrder' = FALSE
  /\ pageLog' = <<>>
  /\ lookupsStarted' = {}
  /\ stopReason' = "none"
  /\ UNCHANGED <<hasTmdb, discFilters, maxPagesArg, sourcePlan, reportedTotalPages,
                 detailPlan, maxPages, page, consecutiveEmptyPages, pending, results,
                 notDiscoverVars>>

DiscoverNextAgain == DiscoverNext \/ DiscoverAgain

(***************************************************************************)
(* OMDBApi.normalizeMovieData (api) and cleanMovieData (helpers)           *)
(***************************************************************************)
\* Number.NaN: falsy, neither null nor undefined nor ''
NaN == [t |-> "number", s |-> <<"NaN">>, n |-> 0, a |-> <<>>]

DigitTable ==
  ("0" :> 0) @@ ("1" :> 1) @@ ("2" :> 2) @@ ("3" :> 3) @@ ("4" :> 4) @@
  ("5" :> 5) @@ ("6" :> 6) @@ ("7" :> 7) @@ ("8" :> 8) @@ ("9" :> 9)

\* the digits a string starts with
RECURSIVE leadingDigits(_)
leadingDigits(cs) ==
  IF cs = <<>> \/ Head(cs) \notin DOMAIN DigitTable THEN <<>>
  ELSE <<Head(cs)>> \o leadingDigits(Tail(cs))

RECURSIVE digitsValue(_)
digitsValue(ds) ==
  IF ds = <<>> THEN 0
  ELSE 10 * digitsValue(SubSeq(ds, 1, Len(ds) - 1)) + DigitTable[ds[Len(ds)]]

\* parseInt(v) and, for the whole numbers of the model, parseFloat(v)
parseInt(v) ==
  IF v.t = "number" THEN v
  ELSE IF v.t = "string" /\ leadingDigits(trimStart(v.s)) # <<>>
    THEN Num(digitsValue(leadingDigits(trimStart(v.s))))
  ELSE NaN

NA == <<"N", "/", "A">>

\* String.prototype.split(', '); the separator is one atom of the string
RECURSIVE split(_, _)
split(cs, sep) ==
  IF \A j \in 1..Len(cs) : cs[j] # sep THEN <<cs>>
  ELSE LET at == CHOOSE j \in 1..Len(cs) : cs[j] = sep /\ \A k \in 1..(j - 1) : cs[k] # sep
       IN <<SubSeq(cs, 1, at - 1)>> \o split(SubSeq(cs, at + 1, Len(cs)), sep)

\* omdbApi.js lines 144-236, the fields of the canonical record that the
\* model carries.
\*   ParseOmdbDate: new Date(dateStr) for the Released strings of the source,
\*     a local time: <<year, month, day>>, <<>> for an Invalid Date
\*   releaseDate: parseReleaseDate (lines 150-165, 181)
\*   parseNumeric: lines 168-178 (the payloads of the model hold no ',' or '$')
\*   cast: lines 191-195, one <<name, role>> per actor with a name (a name is
\*     one atom; OMDB has no role)
\*   UnlessNA: v !== 'N/A' ? v : null;  OrNull: v || null
omdbNormalize(omdbData) ==
  IF omdbData = NoRecord \/ omdbData[1].Response = Str(<<"False">>) THEN NoRecord
  ELSE LET raw == omdbData[1]
           ParseOmdbDate(atom) ==
             IF atom = "15 Jun 2020" THEN <<2020, 6, 15>>
             ELSE IF atom = "31 Dec 2019" THEN <<2019, 12, 31>>
             ELSE <<>>
           releaseDate ==
             IF Falsy(raw.Released) \/ raw.Released = Str(<<"N/A">>)
                  \/ ParseOmdbDate(raw.Released.s[1]) = <<>>
               THEN <<Null, Null, Null>>
               ELSE LET ymd == ParseOmdbDate(raw.Released.s[1])
                    IN <<Num(ymd[1]), Num(ymd[2]), Num(ymd[3])>>
           parseNumeric(v) ==
             IF Falsy(v) \/ v = Str(NA) THEN Null
             ELSE IF parseInt(v) = NaN THEN Null ELSE parseInt(v)
           digitsOnly(cs) == SelectSeq(cs, LAMBDA c : c \in DOMAIN DigitTable)
           names == IF Falsy(raw.Actors) \/ raw.Actors = Str(NA) THEN <<>>
                    ELSE SelectSeq(split(raw.Actors.s, ", "), LAMBDA piece : trim(piece) # <<>>)
           UnlessNA(v) == IF v = Str(NA) THEN Null ELSE v
           OrNull(v) == IF Falsy(v) THEN Null ELSE v
       IN Some(MkRec([title |-> OrNull(raw.Title),
                      release_year |-> releaseDate[1],
                      release_month |-> releaseDate[2],
                      release_day |-> releaseDate[3],
                      country |-> UnlessNA(raw.Country),
                      genre |-> UnlessNA(raw.Genre),
                      runtime_min |-> IF Falsy(raw.Runtime) THEN Null
                                      ELSE parseNumeric(Str(digitsOnly(raw.Runtime.s))),
                      budget |-> parseNumeric(raw.Budget),
                      is_color |-> IF raw.Type = Str(<<"movie">>) /\ ~Falsy(releaseDate[1])
                                        /\ releaseDate[1].n > 1950
                                     THEN Bool(TRUE) ELSE Null,
                      cast |-> Arr([j \in 1..Len(names) |-> <<trim(names[j])[1], "null">>]),
                      other_titles |-> Arr(<<>>),
                      imdb_id |-> OrNull(raw.imdbID),
                      source |-> Str(<<"OMDB">>)]))

\* helpers lines 178-226.
\*   cleanNumber: if (cleaned[k]) cleaned[k] = parseInt(cleaned[k]) (lines 184-201)
\*   cleanString: lines 209-213
cleanMovieData(m) ==
  IF m = NoRecord THEN NoRecord
  ELSE LET r == m[1]
           cleanNumber(v) == IF Falsy(v) THEN v ELSE parseInt(v)
           cleanString(v) == IF ~Falsy(v) /\ v.t = "string" THEN Str(trim(v.s)) ELSE v
       IN Some([k \in Keys |->
                  IF k \in {"release_year", "release_month", "release_day",
                            "runtime_min", "budget"} THEN cleanNumber(r[k])
                  ELSE IF k = "is_color"
                    THEN (IF r[k].t \in {"null", "undefined"} THEN r[k]
                          ELSE Bool(~Falsy(r[k])))
                  ELSE IF k \in {"title", "country", "genre"} THEN cleanString(r[k])
                  ELSE IF k \in {"cast", "other_titles"}
                    THEN (IF IsArray(r[k]) THEN r[k] ELSE Arr(<<>>))
                  ELSE r[k]])

\* the payloads of the OMDB source
OmdbRawT1 ==
  [Response |-> Str(<<"True">>), Title |-> Str(<<"T1">>),
   Released |-> Str(<<"15 Jun 2020">>), Country |-> Str(<<" ", "U", "S", "A">>),
   Genre |-> Str(<<"C", "o", "m", "e", "d", "y">>),
   Runtime |-> Str(<<"1", "2", "0", " ", "m", "i", "n">>), Budget |-> Undef,
   Actors |-> Str(<<"A", ", ", "B">>), imdbID |-> Str(<<"tt1">>),
   Type |-> Str(<<"movie">>)]

OmdbRawT2 ==
  [Response |-> Str(<<"True">>), Title |-> Str(<<"T2">>),
   Released |-> Str(<<"N/A">>), Country |-> Str(NA),
   Genre |-> Str(<<"D", "r", "a", "m", "a">>),
   Runtime |-> Str(NA), Budget |-> Str(NA),
   Actors |-> Str(NA), imdbID |-> Undef, Type |-> Str(<<"movie">>)]

(***************************************************************************)
(* MovieFetcher.searchMoviesByTitle and fetchMoviesByTitles (setup.js)     *)
(***************************************************************************)
\* two titles and a blank one
TitleSpace == {<<"T1">>, <<"T2">>, <<" ">>}

MaxTitles == 2

\* setup.js lines 78-92 with the guards at lines 103, 117 and 132: the adapter
\* exists and is enabled
Active(cfg, a) ==
  /\ \E j \in 1..Len(cfg.enabledApis) : cfg.enabledApis[j] = a
  /\ a = "omdb" => cfg.omdbApiKey
  /\ a = "tmdb" => cfg.tmdbApiKey

\* setup.js lines 82-92: the adapters a MovieFetcher owns, each with the delay
\* its constructor computed.  Every constructor is called with the key alone,
\* so config.rateLimitPerSecond is not read and each adapter takes its default.
ownedDelays(cfg) ==
  [a \in {x \in Adapters : Active(cfg, x)} |-> DelayOfRate(DefaultRate(a))]

\* the order in which searchMoviesByTitle goes through the adapters
SearchOrder == <<"omdb", "tmdb", "imdb">>

\* the first active adapter after position k of SearchOrder, "finish" if none
RECURSIVE adapterAfter(_, _)
adapterAfter(cfg, k) ==
  IF k >= Len(SearchOrder) THEN "finish"
  ELSE IF Active(cfg, SearchOrder[k + 1]) THEN SearchOrder[k + 1]
  ELSE adapterAfter(cfg, k + 1)

\* where searchMoviesByTitle goes once the adapter at position k is done with;
\* each adapter's block has its own try/catch (lines 111-113, 127-129,
\* 153-155), so a failed call goes on like a successful one
afterAdapter_AbortOnFailure(cfg, k, failed) ==
  IF failed THEN "finish" ELSE adapterAfter(cfg, k)

afterAdapter(cfg, k, failed) == adapterAfter(cfg, k)

\* what the OMDB source holds for a title
omdbPayload(title) == IF title = <<"T1">> THEN OmdbRawT1 ELSE OmdbRawT2

\* what the TMDB source holds for the first hit of a title search
tmdbPayload(title) ==
  IF title = <<"T1">> THEN RawA ELSE IF title = <<"T2">> THEN RawB ELSE RawC

\* lines 330-346: merge, clean and filter the records found for one title;
\* the list with the new entry pushed, or the list as it was
collect(list, i, foundRecs, f, tz) ==
  IF Len(foundRecs) = 0 THEN list
  ELSE LET cleanedMovie == cleanMovieData(mergeMovieData(foundRecs))
       IN IF /\ cleanedMovie # NoRecord
             \* a throw of matchesFilters is caught at line 352: nothing is pushed
             /\ ~matchesFiltersThrows(cleanedMovie[1], f, tz)
             /\ matchesFilters(cleanedMovie[1], f, tz)
            THEN Append(list, [from |-> i, rec |-> cleanedMovie[1]])
            ELSE list

FetchIdle ==
  /\ config = [enabledApis |-> <<"omdb", "tmdb">>, omdbApiKey |-> TRUE,
               tmdbApiKey |-> TRUE, rateLimitPerSecond |-> 10]
  /\ titles = <<>>
  /\ fetchFilters = NoFilters
  /\ fetchPc = "idle"
  /\ titleI = 1
  /\ found = <<>>
  /\ allResults = <<>>
  /\ fetchLog = <<>>

\* a MovieFetcher and one call of fetchMoviesByTitles about to begin
FetchInit ==
  \* config.enabledApis with config.omdbApiKey and config.tmdbApiKey, and
  \* index.js line 190: RATE_LIMIT_PER_SECOND or 10
  /\ config \in
       {[enabledApis |-> c[1], omdbApiKey |-> c[2], tmdbApiKey |-> c[3],
         rateLimitPerSecond |-> r] :
          c \in {<<<<"omdb", "tmdb">>, TRUE, TRUE>>,
                 <<<<"tmdb", "omdb", "imdb">>, TRUE, TRUE>>,
                 <<<<"omdb", "tmdb">>, FALSE, TRUE>>,
                 <<<<"imdb">>, TRUE, FALSE>>,
                 <<<<"omdb">>, FALSE, TRUE>>},
          r \in {10, 2}}
  /\ titles \in UNION {[1..n -> TitleSpace] : n \in 0..MaxTitles}
  /\ fetchFilters \in
       {NoFilters,
        [startDate |-> Str(<<"2020-01-01">>), endDate |-> Undef,
         country |-> Undef, genre |-> Str(<<"c", "o", "m", "e", "d", "y">>)],
        [startDate |-> Undef, endDate |-> Undef,
         country |-> Str(<<"u", "s", "a">>), genre |-> Str(<<"d", "r", "a", "m", "a">>)]}
  /\ fetchPc = "start"
  /\ titleI = 1
  /\ found = <<>>
  /\ allResults = <<>>
  /\ fetchLog = <<>>

Logged(a, op, ok) == Append(fetchLog, [title |-> titleI, adapter |-> a, op |-> op, ok |-> ok])

\* the search of title titleI begins at its first active adapter
BeginTitle(i) ==
  /\ titleI' = i
  /\ found' = <<>>
  /\ fetchPc' = IF i > Len(titles) THEN "returned" ELSE adapterAfter(config, 0)

\* lines 157-158, 333-350: the search is over; collect, then pace or leave
FinishTitle(foundRecs) ==
  /\ allResults' = collect(allResults, titleI, foundRecs, fetchFilters, tzOffset)
  /\ found' = foundRecs
  /\ IF titleI < Len(titles)
       THEN fetchPc' = "delay" /\ UNCHANGED titleI
       ELSE fetchPc' = "returned" /\ titleI' = titleI + 1

\* after the adapter at position k of SearchOrder: its record, if any, is
\* pushed and the next adapter is asked, or the search ends
Proceed(k, failed, normalized) ==
  LET next == afterAdapter(config, k, failed)
      foundRecs == IF normalized = NoRecord THEN found ELSE Append(found, normalized[1])
  IN IF next = "finish" THEN FinishTitle(foundRecs)
     ELSE /\ fetchPc' = next
          /\ found' = foundRecs
          /\ UNCHANGED <<titleI, allResults>>

\* lines 327-331
FetchStart ==
  /\ fetchPc = "start"
  /\ BeginTitle(1)
  /\ UNCHANGED <<config, titles, fetchFilters, allResults, fetchLog, notFetchVars>>

\* lines 103-114: the OMDB lookup by title returns or throws
OmdbLookup ==
  /\ fetchPc = "omdb"
  \* omdbApi.js lines 98-100: getMovieByTitle refuses a blank title
  /\ \E reply \in (IF trim(titles[titleI]) # <<>> THEN Replies("omdb") ELSE {"refused"}) :
       LET outcome == IF reply = "refused" THEN Thrown("Error")
                      ELSE outcomeOfReply("omdb", reply)
           failed == outcome.kind = "throw"
           normalized == IF failed THEN NoRecord
                         ELSE omdbNormalize(Some(omdbPayload(titles[titleI])))
       IN /\ fetchLog' = Logged("omdb", "getMovieByTitle", ~failed)
          /\ Proceed(1, failed, normalized)
  /\ UNCHANGED <<config, titles, fetchFilters, notFetchVars>>

\* lines 117-120: the TMDB title search returns (with or without hits) or throws
TmdbSearch ==
  /\ fetchPc = "tmdb"
  /\ \E reply \in {"hit", "empty"} \cup TransportFailures :
       /\ fetchLog' = Logged("tmdb", "searchMovies", reply \in {"hit", "empty"})
       /\ IF reply = "hit"
            THEN /\ fetchPc' = "tmdbDetails"
                 /\ UNCHANGED <<titleI, found, allResults>>
            ELSE Proceed(2, reply # "empty", NoRecord)
  /\ UNCHANGED <<config, titles, fetchFilters, notFetchVars>>

\* lines 121-130: the details of the first hit return or throw
TmdbDetails ==
  /\ fetchPc = "tmdbDetails"
  /\ \E reply \in Replies("tmdb") :
       LET failed == outcomeOfReply("tmdb", reply).kind = "throw"
           normalized == IF failed THEN NoRecord
                         ELSE tmdbNormalize(Some(tmdbPayload(titles[titleI])), tzOffset)
       IN /\ fetchLog' = Logged("tmdb", "getMovieDetails", ~failed)
          /\ Proceed(2, failed, normalized)
  /\ UNCHANGED <<config, titles, fetchFilters, notFetchVars>>

\* lines 132-156 with imdbApi.js lines 65-74: the IMDB text search answers an
\* empty result list without a request
ImdbSearch ==
  /\ fetchPc = "imdb"
  /\ fetchLog' = Logged("imdb", "searchMovies", TRUE)
  /\ Proceed(3, FALSE, NoRecord)
  /\ UNCHANGED <<config, titles, fetchFilters, notFetchVars>>

\* lines 99-158 with no active adapter: the search returns an empty list
EmptySearch ==
  /\ fetchPc = "finish"
  /\ FinishTitle(found)
  /\ UNCHANGED <<config, titles, fetchFilters, fetchLog, notFetchVars>>

\* lines 348-350: the 500 ms between two titles are over
NextTitle ==
  /\ fetchPc = "delay"
  /\ BeginTitle(titleI + 1)
  /\ UNCHANGED <<config, titles, fetchFilters, allResults, fetchLog, notFetchVars>>

FetchNext ==
  \/ FetchStart
  \/ OmdbLookup
  \/ TmdbSearch
  \/ TmdbDetails
  \/ ImdbSearch
  \/ EmptySearch
  \/ NextTitle

(***************************************************************************)
(* MovieFetcher.enrichMovieData (setup.js)                                 *)
(***************************************************************************)
MaxMovies == 2

\* imdbApi.js lines 207-272, the fields of the canonical record that the
\* model carries; stars holds one name per star, originCountries one name per
\* country
imdbNormalize(imdbData) ==
  IF imdbData = NoRecord THEN NoRecord
  ELSE LET raw == imdbData[1]
       IN Some(MkRec([title |-> raw.primaryTitle,
                      release_year |-> IF Falsy(raw.startYear) THEN Null ELSE raw.startYear,
                      release_month |-> Null,
                      release_day |-> Null,
                      country |-> IF Falsy(raw.originCountries) THEN Null
                                  ELSE Str(join(raw.originCountries.a, <<",", " ">>)),
                      genre |-> IF Falsy(raw.genres) THEN Null
                                ELSE Str(join(raw.genres.a, <<"/">>)),
                      runtime_min |-> IF Falsy(raw.runtimeSeconds) THEN Null
                                      ELSE Num((raw.runtimeSeconds.n + 30) \div 60),
                      budget |-> Null,
                      is_color |-> Bool(TRUE),
                      cast |-> IF Falsy(raw.stars) THEN Arr(<<>>)
                               ELSE Arr([j \in 1..Len(raw.stars.a) |->
                                           <<raw.stars.a[j], "null">>]),
                      other_titles |-> Arr(<<>>),
                      imdb_id |-> raw.id,
                      source |-> Str(<<"IMDB">>)]))

\* the test without its look at movie.sources
gateOf_IgnoreSources(cfg, m, a) ==
  IF a \in {"omdb", "imdb"} /\ Falsy(m["imdb_id"]) THEN "skip"
  ELSE IF ~Active(cfg, a) THEN "skip"
  ELSE "ask"

\* lines 376-378, 392-393 and 407-408: the test before an adapter is asked.
\* movie.sources.includes exists on an array and on a string; on any other
\* truthy value the call is a TypeError, outside the inner try.
gateOf(cfg, m, a) ==
  LET tag == IF a = "omdb" THEN "OMDB" ELSE IF a = "imdb" THEN "IMDB" ELSE "TMDB"
  IN IF a \in {"omdb", "imdb"} /\ Falsy(m["imdb_id"]) THEN "skip"
     ELSE IF ~Active(cfg, a) THEN "skip"
     ELSE IF Falsy(m["sources"]) THEN "ask"
     ELSE IF IsArray(m["sources"])
       THEN (IF \E j \in 1..Len(m["sources"].a) : m["sources"].a[j] = <<tag>>
               THEN "skip" ELSE "ask")
     ELSE IF m["sources"].t = "string"
       THEN (IF includes(m["sources"].s, <<tag>>) THEN "skip" ELSE "ask")
     ELSE "throw"

\* where the attempt for movie m goes after the k-th adapter of the order in
\* which enrichMovieData asks them (OMDB, IMDB, TMDB): to the next adapter
\* whose test passes, to the merge, or into the outer catch
RECURSIVE stageAfter(_, _, _)
stageAfter(cfg, m, k) ==
  LET EnrichOrder == <<"omdb", "imdb", "tmdb">>
  IN IF k >= Len(EnrichOrder) THEN "merge"
     ELSE LET g == gateOf(cfg, m, EnrichOrder[k + 1])
          IN IF g = "throw" THEN "throw"
             ELSE IF g = "ask" THEN EnrichOrder[k + 1]
             ELSE stageAfter(cfg, m, k + 1)

\* lines 431-434: the outer catch keeps the original record
caught_Dropped(list, m) == list

caught(list, m) == Append(list, m)

EnrichIdle ==
  /\ enrichConfig = [enabledApis |-> <<"omdb", "tmdb">>, omdbApiKey |-> TRUE,
                     tmdbApiKey |-> TRUE, rateLimitPerSecond |-> 10]
  /\ movies = <<>>
  /\ enrichPc = "idle"
  /\ enrichI = 1
  /\ enrichmentResults = <<>>
  /\ enrichedMovies = <<>>
  /\ enrichLog = <<>>

\* a MovieFetcher and one call of enrichMovieData about to begin.  The input
\* records: one as discoverMovies returns it (a normalized TMDB record, no
\* sources list), one as fetchMoviesByTitles returns it (merged from OMDB and
\* TMDB), one with no IMDb id, and one whose sources field is a count, not a
\* list.
EnrichInit ==
  /\ enrichConfig \in
       {[enabledApis |-> apis, omdbApiKey |-> TRUE, tmdbApiKey |-> TRUE,
         rateLimitPerSecond |-> 10] :
          apis \in {<<"omdb", "tmdb">>, <<"omdb", "tmdb", "imdb">>, <<"imdb">>}}
  /\ movies \in UNION {[1..n ->
       {MkRec([title |-> Str(<<"T1">>), release_year |-> Num(2020), budget |-> Num(0),
               runtime_min |-> Num(120), adult |-> Bool(FALSE), is_color |-> Bool(TRUE),
               cast |-> Arr(<<>>), other_titles |-> Arr(<<>>),
               imdb_id |-> Str(<<"tt1">>), source |-> Str(<<"TMDB">>)]),
        MkRec([title |-> Str(<<"T1">>), release_year |-> Num(2020),
               runtime_min |-> Num(120), is_color |-> Bool(TRUE),
               cast |-> Arr(<< <<"A", "null">>, <<"B", "null">> >>),
               other_titles |-> Arr(<<>>), imdb_id |-> Str(<<"tt1">>),
               source |-> Str(<<"OMDB">>),
               sources |-> Arr(<< <<"OMDB">>, <<"TMDB">> >>)]),
        MkRec([title |-> Str(<<"T2">>), genre |-> Str(<<"D", "r", "a", "m", "a">>),
               cast |-> Arr(<<>>), other_titles |-> Arr(<<>>),
               source |-> Str(<<"OMDB">>), sources |-> Arr(<< <<"OMDB">> >>)]),
        MkRec([title |-> Str(<<"T3">>), imdb_id |-> Str(<<"tt3">>),
               sources |-> Num(2)])}] : n \in 0..MaxMovies}
  /\ enrichPc = "start"
  /\ enrichI = 1
  /\ enrichmentResults = <<>>
  /\ enrichedMovies = <<>>
  /\ enrichLog = <<>>

\* the log with one more outcome: an adapter call, or the warning of line 432
EnrichLogged(a, op, ok) ==
  Append(enrichLog, [rec |-> enrichI, adapter |-> a, op |-> op, ok |-> ok])

\* the attempt goes on after the k-th adapter with the records rs gathered
\* so far: to the next adapter, to the merge and the push of lines 421-427,
\* or into the catch of lines 431-434
EnrichGoOn(k, rs, log) ==
  LET next == stageAfter(enrichConfig, movies[enrichI], k)
      cleanedMovie == cleanMovieData(mergeMovieData(rs))
  IN /\ enrichmentResults' = rs
     /\ enrichLog' = IF next = "throw"
                       THEN Append(log, [rec |-> enrichI, adapter |-> "none",
                                         op |-> "warn", ok |-> FALSE])
                       ELSE log
     /\ IF next = "throw"
          THEN /\ enrichedMovies' = caught(enrichedMovies, movies[enrichI])
               /\ enrichI' = enrichI + 1
               /\ enrichPc' = "record"
          ELSE IF next = "merge"
            THEN /\ enrichedMovies' = IF cleanedMovie # NoRecord
                                         THEN Append(enrichedMovies, cleanedMovie[1])
                                         ELSE enrichedMovies
                 /\ enrichPc' = "delay"
                 /\ UNCHANGED enrichI
          ELSE /\ enrichPc' = next
               /\ UNCHANGED <<enrichI, enrichedMovies>>

\* lines 362-365
EnrichStart ==
  /\ enrichPc = "start"
  /\ enrichPc' = "record"
  /\ enrichI' = 1
  /\ enrichedMovies' = <<>>
  /\ UNCHANGED <<enrichConfig, movies, enrichmentResults, enrichLog, notEnrichVars>>

\* lines 367-378: the loop head; the attempt for record enrichI begins with
\* the record itself, or the loop is over and the list is returned (437-438)
EnrichRecord ==
  /\ enrichPc = "record"
  /\ IF enrichI > Len(movies)
       THEN /\ enrichPc' = "returned"
            /\ UNCHANGED <<enrichI, enrichmentResults, enrichedMovies, enrichLog>>
       ELSE EnrichGoOn(0, <<movies[enrichI]>>, enrichLog)
  /\ UNCHANGED <<enrichConfig, movies, notEnrichVars>>

\* lines 379-388: OMDB is asked for the details of movie.imdb_id; a throw is
\* swallowed
EnrichOmdb ==
  /\ enrichPc = "omdb"
  \* omdbApi.js lines 81-84: getMovieDetails refuses an id that is no string
  /\ \E reply \in (IF movies[enrichI]["imdb_id"].t = "string" THEN Replies("omdb")
                   ELSE {"refused"}) :
       LET failed == reply = "refused" \/ outcomeOfReply("omdb", reply).kind = "throw"
           normalized == IF failed THEN NoRecord
                         ELSE omdbNormalize(Some(omdbPayload(movies[enrichI]["title"].s)))
       IN EnrichGoOn(1, IF normalized = NoRecord THEN enrichmentResults
                        ELSE Append(enrichmentResults, normalized[1]),
                     EnrichLogged("omdb", "getMovieDetails", ~failed))
  /\ UNCHANGED <<enrichConfig, movies, notEnrichVars>>

\* lines 394-402 with imdbApi.js lines 65-74: IMDB is asked for the details
\* of movie.imdb_id; getMovieDetails answers null when its request fails
EnrichImdb ==
  /\ enrichPc = "imdb"
  /\ \E reply \in Replies("imdb") :
       LET \* what the IMDB source holds for the id
           imdbPayload ==
             [primaryTitle |-> Str(<<"T1">>), startYear |-> Num(2020),
              stars |-> Arr(<<"A", "D">>), runtimeSeconds |-> Num(7230),
              genres |-> Arr(<< <<"C", "o", "m", "e", "d", "y">> >>),
              originCountries |-> Undef, id |-> movies[enrichI]["imdb_id"]]
           imdbData == IF reply = "ok" /\ movies[enrichI]["imdb_id"].t = "string"
                         THEN Some(imdbPayload)
                         ELSE NoRecord
           normalized == imdbNormalize(imdbData)
       IN EnrichGoOn(2, IF normalized = NoRecord THEN enrichmentResults
                        ELSE Append(enrichmentResults, normalized[1]),
                     EnrichLogged("imdb", "getMovieDetails", imdbData # NoRecord))
  /\ UNCHANGED <<enrichConfig, movies, notEnrichVars>>

\* lines 409-411: the TMDB search by movie.title returns (with or without
\* hits) or throws
EnrichTmdbSearch ==
  /\ enrichPc = "tmdb"
  /\ \E reply \in {"hit", "empty"} \cup TransportFailures :
       LET log == EnrichLogged("tmdb", "searchMovies", reply \in {"hit", "empty"})
       IN IF reply = "hit"
            THEN /\ enrichPc' = "tmdbDetails"
                 /\ enrichLog' = log
                 /\ UNCHANGED <<enrichI, enrichmentResults, enrichedMovies>>
            ELSE EnrichGoOn(3, enrichmentResults, log)
  /\ UNCHANGED <<enrichConfig, movies, notEnrichVars>>

\* lines 412-417: the details of the first hit return or throw
EnrichTmdbDetails ==
  /\ enrichPc = "tmdbDetails"
  /\ \E reply \in Replies("tmdb") :
       LET failed == outcomeOfReply("tmdb", reply).kind = "throw"
           normalized == IF failed THEN NoRecord
                         ELSE tmdbNormalize(Some(tmdbPayload(movies[enrichI]["title"].s)),
                                            tzOffset)
       IN EnrichGoOn(3, IF normalized = NoRecord THEN enrichmentResults
                        ELSE Append(enrichmentResults, normalized[1]),
                     EnrichLogged("tmdb", "getMovieDetails", ~failed))
  /\ UNCHANGED <<enrichConfig, movies, notEnrichVars>>

\* line 430: the 100 ms after a record are over
EnrichDelay ==
  /\ enrichPc = "delay"
  /\ enrichPc' = "record"
  /\ enrichI' = enrichI + 1
  /\ UNCHANGED <<enrichConfig, movies, enrichmentResults, enrichedMovies, enrichLog,
                 notEnrichVars>>

EnrichNext ==
  \/ EnrichStart
  \/ EnrichRecord
  \/ EnrichOmdb
  \/ EnrichImdb
  \/ EnrichTmdbSearch
  \/ EnrichTmdbDetails
  \/ EnrichDelay

(***************************************************************************)
(* Specifications                                                          *)
(***************************************************************************)
InitMerge ==
  MergeInit /\ FilterIdle /\ RateIdle /\ DiscoverIdle /\ FetchIdle /\ EnrichIdle
SpecMerge == InitMerge /\ [][MergeNext]_vars

InitFilter ==
  FilterInit /\ MergeIdle /\ RateIdle /\ DiscoverIdle /\ FetchIdle /\ EnrichIdle
SpecFilter == InitFilter /\ [][FilterCall]_vars

InitRate ==
  RateInit /\ MergeIdle /\ FilterIdle /\ DiscoverIdle /\ FetchIdle /\ EnrichIdle
SpecRate == InitRate /\ [][RateNext]_vars

InitDiscover ==
  DiscoverInit /\ MergeIdle /\ FilterIdle /\ RateIdle /\ FetchIdle /\ EnrichIdle
SpecDiscover == InitDiscover /\ [][DiscoverNext]_vars
\* call after call, where every HTTP call and every pacing delay of a call in
\* progress eventually completes or fails
InitDiscoverAgain ==
  /\ InitDiscover
  /\ discFilters = NoFilters
  /\ detailPlan = "mixed"
SpecDiscoverAgain ==
  /\ InitDiscoverAgain
  /\ [][DiscoverNextAgain]_vars
  /\ WF_vars(DiscoverStart)
  \* the page request completes or fails
  /\ WF_vars(FetchPage \/ FetchPageFails)
  \* a pending detail lookup settles: the steps of LookupDone, told by what
  \* they do to `pending`
  /\ WF_pending(discPc = "lookups" /\ \E e \in pending : pending' = pending \ {e})
  /\ WF_vars(BatchJoin)
  \* the pacing delay completes
  /\ WF_vars(PacingDone)

InitFetch ==
  FetchInit /\ MergeIdle /\ FilterIdle /\ RateIdle /\ DiscoverIdle /\ EnrichIdle
SpecFetch == InitFetch /\ [][FetchNext]_vars

InitEnrich ==
  EnrichInit /\ MergeIdle /\ FilterIdle /\ RateIdle /\ DiscoverIdle /\ FetchIdle
SpecEnrich == InitEnrich /\ [][EnrichNext]_vars

(***************************************************************************)
(* Claims about mergeMovieData (SpecMerge)                                 *)
(***************************************************************************)
MergeReturned == mergePc = "returned" /\ Len(movieDataArray) > 0

ScalarKeys == Keys \ {"cast", "other_titles", "sources"}

HasPresent(list, k) == \E j \in 1..Len(list) : NotEmpty(list[j][k])

FirstPresent(list, k) ==
  LET j == CHOOSE x \in 1..Len(list) :
             /\ NotEmpty(list[x][k])
             /\ \A y \in 1..(x - 1) : ~NotEmpty(list[y][k])
  IN list[j][k]

\* C1: for every field other than cast, other_titles and sources, the merged
\* value is the value of the first record, in input order, whose value for the
\* field is not null, not undefined and not the empty string (so an accumulated
\* 0 or false is kept).
C1_FirstNonEmptyWins ==
  MergeReturned =>
    \A k \in ScalarKeys :
      HasPresent(movieDataArray, k) => merged[1][k] = FirstPresent(movieDataArray, k)

RECURSIVE NonNullTags(_)
NonNullTags(list) ==
  IF list = <<>> THEN <<>>
  ELSE (IF Head(list)["source"].t \in {"null", "undefined"}
          THEN <<>> ELSE <<Head(list)["source"].s>>) \o NonNullTags(Tail(list))

\* C8: the merged record's sources are the inputs' source tags in input order
\* with the null tags removed, and merging the empty list returns null.
C8_SourcesProvenance ==
  mergePc = "returned" =>
    IF Len(movieDataArray) = 0
      THEN merged = NoRecord
      ELSE /\ merged # NoRecord
           /\ merged[1]["sources"] = Arr(NonNullTags(movieDataArray))

\* a three-record merge whose middle record has a null tag
C8_Witness ==
  /\ mergePc = "returned"
  /\ Len(movieDataArray) = 3
  /\ movieDataArray[1]["source"] = Str(<<"OMDB">>)
  /\ movieDataArray[2]["source"] = Null
  /\ movieDataArray[3]["source"] = Str(<<"TMDB">>)
  /\ merged[1]["sources"] = Arr(<< <<"OMDB">>, <<"TMDB">> >>)

RECURSIVE NewActors(_, _)
NewActors(names, incoming) ==
  IF incoming = <<>> THEN <<>>
  ELSE (IF Head(incoming)[1] \in names THEN <<>> ELSE <<Head(incoming)>>)
         \o NewActors(names, Tail(incoming))

\* the loop has just merged record mergeI - 1 into mergedBefore
MergeStepTaken == mergePc = "loop" /\ mergedBefore # NoRecord

\* C9: when the accumulated and the incoming cast are both arrays, the merged
\* cast is the accumulated cast, in its order, followed by the incoming entries,
\* in their order, whose name does not occur in the accumulated cast.
C9_CastDedup ==
  MergeStepTaken =>
    LET acc == mergedBefore[1]["cast"]
        inc == movieDataArray[mergeI - 1]["cast"]
    IN (IsArray(acc) /\ IsArray(inc)) =>
         merged[1]["cast"] = Arr(acc.a \o NewActors(ActorNames(acc.a), inc.a))

\* R1.cast = [A], R2.cast = [A, B] merges to exactly [A, B]
C9_Witness ==
  /\ MergeStepTaken
  /\ mergedBefore[1]["cast"] = Arr(<<ActorA1>>)
  /\ movieDataArray[mergeI - 1]["cast"] = Arr(<<ActorA2, ActorB>>)
  /\ merged[1]["cast"] = Arr(<<ActorA1, ActorB>>)

(***************************************************************************)
(* Claims about matchesFilters (SpecFilter)                                *)
(***************************************************************************)
CountryPassesOf(m, f) ==
  \/ Falsy(f.country)
  \/ LET have == LowerOrEmpty(m["country"])
         want == toLowerCase(f.country.s)
     IN \/ includes(have, want)
        \/ \E variant \in countryMapping(want) : includes(have, variant)

GenrePassesOf(m, f) ==
  \/ Falsy(f.genre)
  \/ includes(LowerOrEmpty(m["genre"]), toLowerCase(f.genre.s))

\* every supplied filter dimension passes
PassesAllOf(m, f, tz) == ~dateRejects(m, f, tz) /\ CountryPassesOf(m, f) /\ GenrePassesOf(m, f)

DatePasses == ~dateRejects(movie, filters, tzOffset)

CountryPasses == CountryPassesOf(movie, filters)

GenrePasses == GenrePassesOf(movie, filters)

\* only the country term is supplied
OnlyCountry == ~Falsy(filters.country) /\ Falsy(filters.startDate)
                 /\ Falsy(filters.endDate) /\ Falsy(filters.genre)

\* C13: with only a country term c supplied the call returns true exactly when
\* lowercase(c) is a substring of the record's lowercased country, or c has an
\* entry in the code table and one of its name variants is such a substring;
\* without a table entry the verdict is the direct substring result ("Polska"
\* passes "pl", "Germany" fails it).
C13_CountryBridging ==
  (filterPc \in {"returned", "thrown"} /\ OnlyCountry) =>
    /\ filterPc = "returned"
    /\ verdict <=> CountryPasses
    /\ countryMapping(toLowerCase(filters.country.s)) = {} =>
         (verdict <=> includes(LowerOrEmpty(movie["country"]), toLowerCase(filters.country.s)))
    /\ (filters.country = Str(<<"p", "l">>) /\ movie["country"] = Str(<<"P", "o", "l", "s", "k", "a">>))
         => verdict
    /\ (filters.country = Str(<<"p", "l">>) /\ movie["country"] = Str(<<"G", "e", "r", "m", "a", "n", "y">>))
         => ~verdict

\* C2: the verdict is the conjunction of the date, country and genre checks,
\* an omitted dimension passing; a record that passes the country filter but
\* whose genre does not contain the supplied genre is rejected.
C2_LogicalAnd ==
  filterPc = "returned" => (verdict <=> (DatePasses /\ CountryPasses /\ GenrePasses))

(***************************************************************************)
(* Claims about the adapters' rateLimitedRequest (SpecRate)                *)
(***************************************************************************)
\* the stamp of the call that last went past line 20
LastStamp ==
  IF \E s \in Slots : callPc[s] = "inflight"
    THEN callStamp[CHOOSE s \in Slots : callPc[s] = "inflight"]
  ELSE IF callLog # <<>> THEN callLog[Len(callLog)].stamp
  ELSE 0

\* C5: when one adapter instance is called sequentially, any two consecutive
\* outbound HTTP requests are issued at least rateLimitDelay =
\* 1000/requestsPerSecond ms apart (100 ms at 10 requests/second), and the
\* last-call timestamp is the time of the latest call, failed calls included.
C5_RateLimitSpacing ==
  sequentialUse =>
    /\ rateLimitDelay * rateLimitPerSecond = 1000
    /\ (rateLimitPerSecond = 10 => rateLimitDelay = 100)
    /\ \A i \in 1..(Len(requestTimes) - 1) :
         requestTimes[i + 1] - requestTimes[i] >= rateLimitDelay
    /\ lastRequestTime = LastStamp
    /\ \A i \in 1..Len(callLog) :
         callLog[i].sent => callLog[i].stamp = requestTimes[i]

\* a failed call, then a second call that had to sleep and went out exactly
\* 100 ms after the first at 10 requests/second
C5_Witness ==
  /\ sequentialUse
  /\ rateLimitPerSecond = 10
  /\ Len(callLog) = 2
  /\ callLog[1].outcome.kind = "throw"
  /\ requestTimes[2] - requestTimes[1] = 100
  /\ lastRequestTime = callLog[2].stamp

\* C10: a call that receives the source's not-found sentinel in a 2xx reply
\* raises, a call that hits a transport failure raises, and the two errors are
\* of different kinds.
C10_NotFoundVsTransport ==
  /\ \A i \in 1..Len(callLog) :
       callLog[i].reply \in {"sentinel"} \cup TransportFailures
         => callLog[i].outcome.kind = "throw"
  /\ \A i, j \in 1..Len(callLog) :
       callLog[i].reply = "sentinel" /\ callLog[j].reply \in TransportFailures
         => callLog[i].outcome.error # callLog[j].outcome.error

\* one instance has answered a not-found reply and a refused connection
C10_Witness ==
  /\ adapterName = "omdb"
  /\ Len(callLog) = 2
  /\ callLog[1].reply = "sentinel"
  /\ callLog[2].reply = "network"
  /\ callLog[1].outcome.kind = "throw"
  /\ callLog[2].outcome.kind = "throw"

\* C15: during discoverMovies the discovery adapter (TMDB) is used strictly
\* sequentially, at most one call being inside rateLimitedRequest at a time,
\* so that any two of its outbound requests, the detail lookups of one
\* sub-batch included, are issued at least rateLimitDelay apart.  The
\* sub-batch is the use with sequentialUse = FALSE.
C15_SequentialDuringDiscovery ==
  (adapterName = "tmdb" /\ ~sequentialUse) =>
    /\ Cardinality({s \in Slots : callPc[s] # "idle"}) <= 1
    /\ \A i \in 1..(Len(requestTimes) - 1) :
         requestTimes[i + 1] - requestTimes[i] >= rateLimitDelay

\* C19: an adapter constructed without an explicit rate enforces a minimum
\* delay between calls of 100 ms for OMDB, 250 ms for TMDB and 200 ms for IMDB.
C19_DefaultDelays ==
  rateLimitPerSecond = DefaultRate(adapterName) =>
    LET claimed == CASE adapterName = "omdb" -> 100
                     [] adapterName = "tmdb" -> 250
                     [] adapterName = "imdb" -> 200
    IN /\ rateLimitDelay = claimed
       /\ sequentialUse =>
            \A i \in 1..(Len(requestTimes) - 1) :
              requestTimes[i + 1] - requestTimes[i] >= claimed

(***************************************************************************)
(* Claims about discoverMovies (SpecDiscover)                              *)
(***************************************************************************)
DiscoverReturned == discPc = "returned" /\ hasTmdb

\* the source answered every page request it got
AllPagesAnswered == \A i \in 1..Len(pageLog) : pageLog[i].outcome = "ok"

PagesFetched == [i \in 1..Len(pageLog) |-> pageLog[i].page]

EntriesOf(p, n) == {[page |-> p, idx |-> x] : x \in 1..n}

\* C3: a fetched page with fewer than 20 results is processed and is the last
\* page fetched; with 20 results on page 1, 7 on page 2 and maxPages = 10 the
\* call fetches exactly pages 1 and 2 and processes all 27 entries.
C3_PartialPageStop ==
  DiscoverReturned /\ AllPagesAnswered =>
    /\ \A i \in 1..Len(pageLog) :
         pageLog[i].len < PageSize =>
           /\ i = Len(pageLog)
           /\ EntriesOf(pageLog[i].page, pageLog[i].len) \subseteq lookupsStarted
    /\ (maxPagesArg = 10 /\ PageLen(sourcePlan, 1) = 20 /\ PageLen(sourcePlan, 2) = 7) =>
         /\ PagesFetched = <<1, 2>>
         /\ lookupsStarted = EntriesOf(1, 20) \cup EntriesOf(2, 7)

\* C4: with zero results on pages 1, 2 and 3 out of a nominal 10 total pages
\* the call fetches pages 1, 2 and 3 and stops after page 3.
C4_EmptyStreakOfThree ==
  (/\ DiscoverReturned
   /\ AllPagesAnswered
   /\ reportedTotalPages = 10
   /\ maxPages >= 3
   /\ \A p \in 1..3 : PageLen(sourcePlan, p) = 0)
  => PagesFetched = <<1, 2, 3>>

\* C14: the page requests of one call go out in strictly increasing page
\* order starting at page 1, each page index at most once (a failed page is not
\* requested again), and none beyond min(requested maxPages, 500).
C14_PageBound ==
  /\ Len(pageLog) > 0 => pageLog[1].page = 1
  /\ \A i \in 1..(Len(pageLog) - 1) : pageLog[i].page < pageLog[i + 1].page
  /\ \A i \in 1..Len(pageLog) :
       /\ pageLog[i].page <= HardCeiling
       /\ maxPagesArg # 0 => pageLog[i].page <= maxPagesArg
  /\ (discPc # "start" /\ hasTmdb /\ maxPagesArg > HardCeiling) => maxPages = HardCeiling

\* two pages were asked for: page 1 failed, page 2 was full, and the call
\* returned without a third request and without asking for page 1 again
C14_Witness ==
  /\ DiscoverReturned
  /\ maxPagesArg = 2
  /\ stopReason = "Max pages"
  /\ Len(pageLog) = 2
  /\ pageLog[1].outcome = "fail"
  /\ pageLog[2].page = 2 /\ pageLog[2].len = PageSize

\* the number of failed page requests at the end of the log up to entry i
RECURSIVE FailStreak(_)
FailStreak(i) ==
  IF i = 0 \/ pageLog[i].outcome # "fail" THEN 0 ELSE 1 + FailStreak(i - 1)

\* C16: a failed page fetch ends the call only when it is the third in a row
\* (or the page bound is reached); after one or two failures in a row the next
\* page is fetched, a non-empty page sets the counter back to 0, and the
\* records of earlier pages stay in the list that is returned.
C16_PageFailuresCounted ==
  /\ [](\A i \in 1..Len(pageLog) :
          pageLog[i].outcome = "fail" =>
            /\ i < Len(pageLog) => pageLog[i + 1].page = pageLog[i].page + 1
            /\ (i = Len(pageLog) /\ discPc = "returned") =>
                 (FailStreak(i) >= StreakLimit \/ pageLog[i].page = maxPages)
            /\ (i = Len(pageLog) /\ FailStreak(i) >= StreakLimit) => discPc = "returned")
  /\ [](discPc \in {"loop", "lookups", "pacing"} =>
          consecutiveEmptyPages = FailStreak(Len(pageLog)))
  /\ [][\A k \in 1..Len(results) : Len(results') >= k /\ results'[k] = results[k]]_vars

\* page 1 failed, page 2 gave records, pages 3 and 4 failed, page 5 was still
\* fetched, and the records of page 2 were returned
C16_Witness ==
  /\ DiscoverReturned
  /\ Len(pageLog) = 5
  /\ pageLog[1].outcome = "fail"
  /\ pageLog[2].outcome = "ok" /\ pageLog[2].len = PageSize
  /\ pageLog[3].outcome = "fail" /\ pageLog[4].outcome = "fail"
  /\ pageLog[5].page = 5 /\ pageLog[5].outcome = "ok"
  /\ \E k \in 1..Len(results) : results[k].page = 2

\* C17: the returned list is ordered by (page index, position within the
\* page), whatever the order in which the lookups of a sub-batch settle.
C17_ResultOrder ==
  \A k, l \in 1..Len(results) :
    k < l => \/ results[k].page < results[l].page
             \/ results[k].page = results[l].page /\ results[k].idx < results[l].idx

\* a call that returned records of two pages after some lookup had settled
\* ahead of an earlier member of its sub-batch
C17_Witness ==
  /\ DiscoverReturned
  /\ settledOutOfOrder
  /\ \E k, l \in 1..Len(results) : results[k].page = 1 /\ results[l].page = 2

\* the members of the current sub-batch whose lookup gives a record
KeptOfBatch ==
  {x \in BatchOf(batchI, pageLen) :
     lookupResult(DetailReply(detailPlan, x), discFilters, tzOffset) # NoRecord}

\* C18: at most 5 detail lookups are pending at any moment; no lookup of a
\* later sub-batch and no page fetch starts before every lookup of the current
\* sub-batch has settled; a failing lookup removes only its own record.
C18_BoundedFanOut ==
  /\ [](Cardinality(pending) <= BatchSize)
  /\ [][(lookupsStarted' # lookupsStarted \/ Len(pageLog') > Len(pageLog)) => pending = {}]_vars
  /\ [][(discPc = "lookups" /\ discPc' = "pacing") =>
         /\ SubSeq(results', 1, Len(results)) = results
         /\ {results'[k].idx : k \in (Len(results) + 1)..Len(results')} = KeptOfBatch
         /\ \A k \in (Len(results) + 1)..Len(results') : results'[k].page = page]_vars

\* the second lookup of the first sub-batch failed; the records of its
\* neighbours are in the list, its own is not
C18_Witness ==
  /\ discPc = "pacing"
  /\ batchI = 0
  /\ DetailReply(detailPlan, 2).kind = "fail"
  /\ [page |-> 1, idx |-> 2] \in lookupsStarted
  /\ Len(results) >= 2
  /\ results[1] = [page |-> 1, idx |-> 1]
  /\ results[2] = [page |-> 1, idx |-> 3]

(***************************************************************************)
(* Claims about fetchMoviesByTitles (SpecFetch)                            *)
(***************************************************************************)
ActiveAdapters == {a \in Adapters : Active(config, a)}

LogEntries(i, a) ==
  {j \in 1..Len(fetchLog) : fetchLog[j].title = i /\ fetchLog[j].adapter = a}

Asked(i, a) == LogEntries(i, a) # {}

FailedFor(i, a) == \E j \in LogEntries(i, a) : ~fetchLog[j].ok

\* the adapter gave a record for title i
GaveRecord(i, a) ==
  \E j \in LogEntries(i, a) :
    fetchLog[j].ok /\ fetchLog[j].op \in {"getMovieByTitle", "getMovieDetails"}

\* the search of title i is over
TitleDone(i) == i < titleI \/ (i = titleI /\ fetchPc = "delay")

\* the tags of the adapters that gave a record for title i, in search order
SuccessTags(i) ==
  (IF GaveRecord(i, "omdb") THEN << <<"OMDB">> >> ELSE <<>>)
    \o (IF GaveRecord(i, "tmdb") THEN << <<"TMDB">> >> ELSE <<>>)

\* C6: a failed adapter call for a title keeps neither the other enabled
\* adapters from being asked for that title nor a later title from being
\* processed; the call returns a list built from the adapters that succeeded.
C6_PartialFailureIsolation ==
  /\ \A i \in 1..Len(titles) : TitleDone(i) => \A a \in ActiveAdapters : Asked(i, a)
  /\ fetchPc = "returned" => \A i \in 1..Len(titles) : TitleDone(i)
  /\ \A k \in 1..Len(allResults) :
       /\ SuccessTags(allResults[k].from) # <<>>
       /\ allResults[k].rec["sources"] = Arr(SuccessTags(allResults[k].from))

\* OMDB failed for the first title and TMDB still gave its record; every
\* source failed for the second title and the call returned all the same
C6_Witness ==
  /\ fetchPc = "returned"
  /\ Len(titles) = 2
  /\ FailedFor(1, "omdb") /\ GaveRecord(1, "tmdb")
  /\ FailedFor(2, "omdb") /\ FailedFor(2, "tmdb")
  /\ Len(allResults) = 1
  /\ allResults[1].from = 1
  /\ allResults[1].rec["sources"] = Arr(<< <<"TMDB">> >>)

\* C7: the result holds at most one record per input title, in input order,
\* and no entry for a title that failed on every source or whose merged
\* record does not pass the filter.
C7_InputTitleOrder ==
  /\ \A k \in 1..(Len(allResults) - 1) : allResults[k].from < allResults[k + 1].from
  /\ \A k \in 1..Len(allResults) :
       /\ allResults[k].from \in 1..Len(titles)
       /\ SuccessTags(allResults[k].from) # <<>>
       /\ PassesAllOf(allResults[k].rec, fetchFilters, tzOffset)

\* C20: every adapter owned by a MovieFetcher built from a configuration with
\* rateLimitPerSecond = r enforces a delay of 1000/r ms between its calls, so
\* that a configuration with a lower rate gives a longer delay.
C20_ConfiguredRateReachesAdapters ==
  \A a \in ActiveAdapters :
    /\ ownedDelays(config)[a] = 1000 \div config.rateLimitPerSecond
    /\ \A r \in 1..(config.rateLimitPerSecond - 1) :
         ownedDelays([config EXCEPT !.rateLimitPerSecond = r])[a]
           > ownedDelays(config)[a]

(***************************************************************************)
(* Claims about enrichMovieData (SpecEnrich)                               *)
(***************************************************************************)
\* the attempt for record j ended in the outer catch
AttemptThrew(j) ==
  \E e \in 1..Len(enrichLog) : enrichLog[e].rec = j /\ enrichLog[e].op = "warn"

\* C11: enrichMovieData returns exactly one output record per input record,
\* in input order, whatever adapter calls fail: a record is pushed once when
\* its attempt ends, the n-th push being the merge that starts from the n-th
\* input or that input itself; and where the attempt threw, the output entry
\* is the original record.
C11_OneOutputPerInput ==
  /\ [](enrichPc = "returned" => Len(enrichedMovies) = Len(movies))
  /\ [](enrichPc \in {"omdb", "imdb", "tmdb", "tmdbDetails"}
          => Len(enrichedMovies) = enrichI - 1)
  /\ [](\A j \in 1..Len(enrichedMovies) :
          AttemptThrew(j) => enrichedMovies[j] = movies[j])
  /\ [][enrichedMovies' # enrichedMovies /\ enrichPc # "start" =>
          /\ enrichedMovies' \in
               {Append(enrichedMovies, movies[enrichI]),
                Append(enrichedMovies,
                       cleanMovieData(mergeMovieData(enrichmentResults'))[1])}
          /\ Len(enrichedMovies') = enrichI
          /\ enrichmentResults'[1] = movies[enrichI]]_vars

\* two records in, two out: the attempt for the first threw and the record
\* came back as it was, the second lost its OMDB call and was merged with
\* what TMDB gave
C11_Witness ==
  /\ enrichPc = "returned"
  /\ Len(movies) = 2
  /\ Len(enrichedMovies) = 2
  /\ AttemptThrew(1)
  /\ enrichedMovies[1] = movies[1]
  /\ \E e, g \in 1..Len(enrichLog) :
       /\ enrichLog[e] = [rec |-> 2, adapter |-> "omdb", op |-> "getMovieDetails",
                          ok |-> FALSE]
       /\ enrichLog[g] = [rec |-> 2, adapter |-> "tmdb", op |-> "getMovieDetails",
                          ok |-> TRUE]
  /\ enrichedMovies[2] # movies[2]

\* the field k of input record j came through the enrichment as it was (for
\* a cast list: its entries are a prefix of the output's, in the same order)
FieldKept(j, k) ==
  IF k = "cast" /\ IsArray(movies[j][k])
    THEN /\ IsArray(enrichedMovies[j][k])
         /\ Len(enrichedMovies[j][k].a) >= Len(movies[j][k].a)
         /\ SubSeq(enrichedMovies[j][k].a, 1, Len(movies[j][k].a)) = movies[j][k].a
    ELSE enrichedMovies[j][k] = movies[j][k]

\* C12: enrichment does not degrade known data: every field of an input
\* record whose value is present (not null, not undefined, not '') has the
\* same value in the corresponding output record, whatever the adapters
\* return.
C12_NoDegradation ==
  \A j \in 1..Len(enrichedMovies) :
    \A k \in Keys : NotEmpty(movies[j][k]) => FieldKept(j, k)

\* the adapter calls made for record j
CallsFor(j) ==
  {e \in 1..Len(enrichLog) : enrichLog[e].rec = j /\ enrichLog[e].adapter # "none"}

\* C21: for an input record without imdb_id no adapter is called, and the
\* output entry carries the original record's data.
C21_GatedOnImdbId ==
  \A j \in 1..Len(movies) :
    Falsy(movies[j]["imdb_id"]) =>
      /\ CallsFor(j) = {}
      /\ j <= Len(enrichedMovies) =>
           \A k \in Keys \ {"sources"} : enrichedMovies[j][k] = movies[j][k]

\* the tag an adapter is looked up by in movie.sources
TagOf(a) == IF a = "omdb" THEN "OMDB" ELSE IF a = "imdb" THEN "IMDB" ELSE "TMDB"

CallsOf(j, a, op) ==
  {e \in CallsFor(j) : enrichLog[e].adapter = a /\ enrichLog[e].op = op}

\* C22: for an input record whose sources list contains an adapter's tag no
\* call is made to that adapter; any adapter is asked at most once per record
\* for the details by id, and TMDB at most once by title before that.
C22_SkipsRepresentedSources ==
  \A j \in 1..Len(movies) : \A a \in Adapters :
    /\ (IsArray(movies[j]["sources"])
          /\ \E x \in 1..Len(movies[j]["sources"].a) :
               movies[j]["sources"].a[x] = <<TagOf(a)>>)
         => \A e \in CallsFor(j) : enrichLog[e].adapter # a
    /\ Cardinality(CallsOf(j, a, "getMovieDetails")) <= 1
    /\ Cardinality(CallsOf(j, a, "searchMovies")) <= (IF a = "tmdb" THEN 1 ELSE 0)
    /\ \A e \in CallsOf(j, "tmdb", "getMovieDetails") :
         \E g \in CallsOf(j, "tmdb", "searchMovies") : g < e /\ enrichLog[g].ok

\* a record merged from OMDB and TMDB went through a MovieFetcher with all
\* three adapters: IMDB alone was asked, once
C22_Witness ==
  /\ enrichPc = "returned"
  /\ Len(movies) >= 1
  /\ movies[1]["sources"] = Arr(<< <<"OMDB">>, <<"TMDB">> >>)
  /\ Active(enrichConfig, "omdb") /\ Active(enrichConfig, "tmdb")
  /\ Cardinality(CallsFor(1)) = 1
  /\ CallsOf(1, "imdb", "getMovieDetails") # {}

\* the tags of a sources value that is a list
TagsOf(v) == {v.a[x] : x \in 1..Len(v.a)}

\* C28: for every input record that carries a sources list, the sources of
\* the corresponding output record contains every tag of the input's list.
C28_KeepsProvenance ==
  \A j \in 1..Len(enrichedMovies) :
    IsArray(movies[j]["sources"]) =>
      /\ IsArray(enrichedMovies[j]["sources"])
      /\ TagsOf(movies[j]["sources"]) \subseteq TagsOf(enrichedMovies[j]["sources"])

\* C29: for a record that carries the single source tag TMDB and no sources
\* list, as discoverMovies returns it, no call is made to TMDB, and the
\* output is not the merge of two TMDB records.
C29_NoRequeryOfProducer ==
  \A j \in 1..Len(movies) :
    (movies[j]["source"] = Str(<<"TMDB">>) /\ movies[j]["sources"] = Undef) =>
      /\ \A e \in CallsFor(j) : enrichLog[e].adapter # "tmdb"
      /\ j <= Len(enrichedMovies) /\ IsArray(enrichedMovies[j]["sources"]) =>
           Cardinality({x \in 1..Len(enrichedMovies[j]["sources"].a) :
                          enrichedMovies[j]["sources"].a[x] = <<"TMDB">>}) <= 1

(***************************************************************************)
(* Further claims about discoverMovies (SpecDiscover)                      *)
(***************************************************************************)
\* C30: a page response without total_pages (absent or 0) does not end the
\* discovery: after a full page the next page is fetched as long as maxPages
\* is not reached, and the loop is left for "Reached total pages" only when
\* the source reports a total and the page index has reached it.
C30_MissingTotalPages ==
  DiscoverReturned =>
    /\ (/\ reportedTotalPages = 0
        /\ pageLog # <<>>
        /\ pageLog[Len(pageLog)].outcome = "ok"
        /\ pageLog[Len(pageLog)].len = PageSize)
         => pageLog[Len(pageLog)].page >= maxPages
    /\ stopReason = "Reached total pages" =>
         reportedTotalPages > 0 /\ page >= reportedTotalPages

\* the genre of the filter was given but not resolved to an id
GenreUnresolved ==
  /\ hasTmdb
  /\ discPc # "start"
  /\ ~Falsy(discFilters.genre)
  /\ tmdbFilters.with_genres = Undef

\* C27: when the genre of the filter is not in the genre dictionary, or the
\* dictionary could not be fetched, discoverMovies still fetches pages, sends
\* no genre id, and the genre name excludes no fetched record from the
\* returned list.
C27_UnresolvedGenreDropped ==
  GenreUnresolved =>
    /\ discPc = "returned" => pageLog # <<>>
    /\ \A i \in 1..Len(pageLog) : pageLog[i].params.with_genres = Undef
    /\ discPc = "returned" =>
         \A x \in lookupsStarted :
           lookupResult(DetailReply(detailPlan, x.idx),
                        [discFilters EXCEPT !.genre = Undef], tzOffset) # NoRecord
             => \E k \in 1..Len(results) : results[k] = x

\* C25: when the filters passed to discoverMovies have a startDate and/or an
\* endDate, every discover page request carries the release-date lower and/or
\* upper bound, alongside the page number, the resolved genre id and the
\* origin-country code when those are supplied.
C25_FilterTranslation ==
  \A i \in 1..Len(pageLog) :
    LET params == pageLog[i].params
    IN /\ ~Falsy(discFilters.startDate) => params.release_date_gte = discFilters.startDate
       /\ ~Falsy(discFilters.endDate) => params.release_date_lte = discFilters.endDate
       /\ params.page = pageLog[i].page
       /\ params.with_genres = tmdbFilters.with_genres
       /\ ~Falsy(discFilters.country) =>
            params.with_origin_country.t = "string"
              /\ toLowerCase(params.with_origin_country.s) = toLowerCase(discFilters.country.s)

(***************************************************************************)
(* Further claims about fetchMoviesByTitles (SpecFetch)                    *)
(***************************************************************************)
\* the place of the source with tag tg in config.enabledApis
ConfiguredPlace(tg) ==
  CHOOSE j \in 1..Len(config.enabledApis) :
    config.enabledApis[j] = (IF tg = "OMDB" THEN "omdb"
                             ELSE IF tg = "TMDB" THEN "tmdb" ELSE "imdb")

\* C26: the per-source records of a title are passed to mergeMovieData in the
\* order in which the sources are listed in config.enabledApis: for a field
\* that two sources both supply the earlier-listed source's value wins, and
\* the merged sources lists the tags in the configured order.
C26_ConfiguredMergeOrder ==
  /\ fetchPc \in {"delay", "returned"} =>
       \A j, k \in 1..Len(found) :
         j < k =>
           /\ ConfiguredPlace(found[j]["source"].s[1]) < ConfiguredPlace(found[k]["source"].s[1])
           /\ (/\ NotEmpty(found[j]["genre"]) /\ NotEmpty(found[k]["genre"])
               /\ allResults # <<>>
               /\ allResults[Len(allResults)].from
                    = (IF fetchPc = "returned" THEN titleI - 1 ELSE titleI))
                => allResults[Len(allResults)].rec["genre"].s
                     = trim(found[CHOOSE x \in {j, k} :
                                    \A y \in {j, k} :
                                      ConfiguredPlace(found[x]["source"].s[1])
                                        <= ConfiguredPlace(found[y]["source"].s[1])]["genre"].s)
  /\ \A r \in 1..Len(allResults) :
       LET tags == allResults[r].rec["sources"].a
       IN \A j, k \in 1..Len(tags) :
            j < k => ConfiguredPlace(tags[j][1]) < ConfiguredPlace(tags[k][1])

(***************************************************************************)
(* Further claims about the adapters (SpecRate)                            *)
(***************************************************************************)
\* C23: on each of the three adapters a details-by-id operation whose HTTP
\* call fails (network error, non-2xx status, timeout) raises an error to its
\* caller, and no second HTTP request is issued for the operation.
C23_TransportFailuresRaise ==
  /\ \A i \in 1..Len(callLog) :
       callLog[i].reply \in TransportFailures
         => detailsById(adapterName, callLog[i].outcome).kind = "throw"
  /\ Len(requestTimes)
       <= Len(callLog) + Cardinality({s \in Slots : callPc[s] = "inflight"})

(***************************************************************************)
(* Claims about repeated calls of discoverMovies (SpecDiscoverAgain)       *)
(***************************************************************************)
\* C24: provided every HTTP call and every pacing delay eventually completes
\* or fails, each discoverMovies call reaches its return, after no more page
\* fetches than maxPages, whatever the pages answer and whatever maxPages is;
\* and each call begins its loop at page 1 with an empty-page counter of 0.
C24_DiscoveryTerminates ==
  /\ (discPc = "start") ~> (discPc = "returned")
  /\ [](Len(pageLog) <= maxPages)
  /\ [](\A i \in 1..Len(pageLog) : pageLog[i].page = i)
  /\ []((discPc = "loop" /\ pageLog = <<>>) => (page = 1 /\ consecutiveEmptyPages = 0))

\* a call is about to begin after an earlier call returned at page 2 with
\* results and a streak of one empty page
C24_Witness ==
  /\ discPc = "start"
  /\ page = 2
  /\ consecutiveEmptyPages = 1
  /\ results # <<>>
  /\ pageLog = <<>>

====
